---- MODULE Spec2Model ----
(***************************************************************************)
(* Verification model of the real-estate sales agent:                      *)
(*   - the lead profile, its fill-only merge, score, tier and lifecycle    *)
(*     (tools/crm.py, tools/lead_qualifier.py),                            *)
(*   - the tool-calling loop of the reasoning service (tools/ai_engine.py),*)
(*   - the nurturing rules and the scheduled nurturing pass                *)
(*     (tools/nurturing_engine.py, tools/scheduled_tasks.py),              *)
(*   - the conversation cache, its store and the context window            *)
(*     (tools/conversation_manager.py, tools/database.py),                 *)
(*   - the inbound webhook handler (routers/whatsapp.py) and the parsing   *)
(*     of the extraction response (tools/ai_engine.py),                    *)
(*   - two concurrent webhook turns on the leads table (tools/crm.py),     *)
(*   - the visits calendar, the booking of visits and the hourly           *)
(*     reminders (tools/scheduler.py, tools/reminder_service.py).          *)
(* Optional values are sequences of length <= 1: None is <<>>, a present   *)
(* value v is <<v>>.                                                       *)
(***************************************************************************)
EXTENDS Integers, Sequences, FiniteSets, TLC

VARIABLES
    \* --- lead qualification (tools/crm.py, tools/lead_qualifier.py)
    lead,           \* the in-memory Lead object of the current turn
    dbLead,         \* the "leads" row of this contact in the store, or NoRecord
    dbUp,           \* whether the store is reachable in this run (its calls succeed)
    hotTasks,       \* number of "llamar" (alta) rows in the "tasks" table
    handoffTasks,   \* number of "contactar" (urgente) rows in the "tasks" table
    calls,          \* qualify_lead calls made so far
    turns,          \* get_or_create_lead calls made so far
    extracted,      \* the extraction of the last qualify_lead call of this turn, when it is kept for a repeated call
    again,          \* TRUE right after a repeated qualify_lead call
    scoreBefore,    \* the score the lead had when the last qualify_lead call began
    \* --- one generate_response invocation (tools/ai_engine.py)
    pc,             \* "idle", "call", "tools", "done" (returned) or "raised"
    mode,           \* "tools", "plain" or "anthropic": the branch generate_response took
    round,          \* _round of _generate_with_tools / attempt of _generate_openai_compatible
    svcCalls,       \* reasoning-service calls made by this invocation
    trace,          \* the outcome of every reasoning-service call, in order
    messages,       \* the message list handed to the reasoning service
    pending,        \* ids of the requested actions of this round not yet executed
    executed,       \* the action request dispatched last: name, argument shape, result
    reply,          \* the value generate_response returned
    \* --- one evaluation of calculate_lead_score
    scoreIn,        \* its arguments
    scoreOut,       \* its result, None before the call
    \* --- one evaluation of _evaluate_nurturing_rules
    nurtureIn,      \* its arguments: days_since_contact, score, interactions
    nurtureOut,     \* whether it returned, and the action it returned
    \* --- one evaluation of get_context_messages
    windowIn,       \* its argument, the Conversation object
    windowOut,      \* its result, None before the call
    \* --- one evaluation of extract_lead_info inside qualify_lead
    responseText,   \* the text the reasoning service returned for the extraction request
    extractOut,     \* how extract_lead_info ended: its result or the exception, None before the call
    \* --- the conversation of one (lead, channel) (tools/conversation_manager.py)
    cache,          \* _active_conversations[cache_key]: None, or the Conversation object it refers to
    convs,          \* the Conversation objects created so far: id and messages of each
    dbConvs,        \* the rows of "conversations" for this lead and channel: id and messages
    turn,           \* per turn: where its add_message call stands and its local values
    appended,       \* every message an add_message call appended, in the order of the appends
    overlapped,     \* TRUE once an add_message call began while another was suspended
    readFailed,     \* TRUE once get_conversation_by_lead failed
    writeFailed,    \* TRUE once upsert_conversation failed
    cleared,        \* TRUE once the cache was cleared (clear_cache, or a restart of the process)
    \* --- the inbound webhook handler of one contact (routers/whatsapp.py)
    hpc,            \* where the handler stands: "idle", "lead", "stored", "asked", "replied" or "raised"
    inbound,        \* the text of the inbound message being handled
    prompt,         \* the message list generate_response built in this turn, None before
    fault,          \* the call that raised out of the handler, None when none did
    sent,           \* replies handed to send_whatsapp_message so far
    \* --- one run of the scheduled nurturing job (tools/scheduled_tasks.py, tools/nurturing_engine.py)
    storeLeads,     \* the rows of the "leads" table
    jobPc,          \* "idle", "loop" (inside process_nurturing), "returned", or "alone" after a lone _execute_nurturing_action call
    leads,          \* the list handed to process_nurturing
    cursor,         \* position of the for loop in that list
    actions_taken,  \* the summary dict of process_nurturing
    handled,        \* per lead the loop has finished with: what was evaluated, attempted and delivered
    summary,        \* the value process_nurturing returned, None before
    \* --- two webhook turns of one contact key on the "leads" table (routers/whatsapp.py, tools/crm.py)
    leadRows,       \* the rows of "leads" with this phone, in the order of their insertion
    wturn,          \* per turn: where it stands, the row get_lead_by_phone gave it, its Lead object
    creates,        \* create_lead calls executed for this phone
    \* --- consecutive runs of the nurturing job (tools/scheduled_tasks.py)
    passNo,         \* which scheduled run of job_nurturing this is, 0 when runs are not counted
    lastPass,       \* what the run before this one did for each lead
    \* --- the visits calendar (tools/scheduler.py, tools/reminder_service.py)
    calendar,       \* the events of the calendar, in the order of their creation
    runNo,          \* hourly runs of send_visit_reminders made so far
    reminders       \* per event: how many email and WhatsApp reminders were sent for it

leadVars == <<lead, dbLead, dbUp, hotTasks, handoffTasks, calls, turns, extracted, again, scoreBefore>>
loopVars == <<pc, mode, round, svcCalls, trace, messages, pending, executed, reply>>
scoreVars == <<scoreIn, scoreOut>>
nurtureVars == <<nurtureIn, nurtureOut>>
windowVars == <<windowIn, windowOut>>
extractVars == <<responseText, extractOut>>
funVars == <<scoreVars, nurtureVars, windowVars, extractVars>>
convVars == <<cache, convs, dbConvs, turn, appended, overlapped, readFailed, writeFailed, cleared>>

webVars == <<hpc, inbound, prompt, fault, sent>>

passVars == <<storeLeads, jobPc, leads, cursor, actions_taken, handled, summary>>

raceVars == <<leadRows, wturn, creates>>

repeatVars == <<passNo, lastPass>>

visitVars == <<calendar, runNo, reminders>>

vars == <<leadVars, loopVars, funVars, convVars, webVars, passVars, raceVars, repeatVars, visitVars>>

----------------------------------------------------------------------------
\* Bounds of the exploration
MaxCalls == 2           \* qualify_lead calls in one behaviour
MaxTurns == 3           \* inbound turns (get_or_create_lead calls) in one behaviour
MaxToolCalls == 2       \* action requests in one answer of the reasoning service
MaxInteractions == 5    \* total_interactions of a lead handed to calculate_lead_score
MaxDays == 8            \* days since the last contact of a lead that has one
MaxAppends == 3         \* add_message calls in one behaviour
MaxMessages == 22       \* messages of a conversation handed to get_context_messages
MaxWebTurns == 2        \* inbound messages handled in one behaviour
MaxTokens == 4          \* pieces of text in a response to the extraction request

----------------------------------------------------------------------------
\* Optional values and Python truthiness
None == <<>>
Some(v) == <<v>>

TruthyStr(x) == x # None /\ x[1] # ""
TruthyNum(x) == x # None /\ x[1] # 0

Min(a, b) == IF a < b THEN a ELSE b

\* config.py thresholds
LEAD_SCORE_COLD == 25
LEAD_SCORE_WARM == 50
LEAD_SCORE_HOT == 75

\* LeadStatus and LeadScore enums
LeadStatus == {"nuevo", "contactado", "cualificado", "visita_agendada",
               "negociacion", "cerrado_ganado", "cerrado_perdido", "inactivo"}
LeadScore == {"curioso", "interesado", "caliente", "listo_para_comprar"}

\* the keys of field_map in update_lead_from_extraction, in its order
field_map == <<"operation", "property_type", "zone", "min_budget", "max_budget",
               "bedrooms", "bathrooms", "min_sqm", "parking", "urgency", "purpose">>

FieldMapKeys == {field_map[i] : i \in 1..Len(field_map)}

\* LeadPreferences(): every field None
LeadPreferences ==
    [operation |-> None, property_type |-> None, zone |-> None,
     min_budget |-> None, max_budget |-> None, min_sqm |-> None,
     max_sqm |-> None, bedrooms |-> None, bathrooms |-> None,
     parking |-> None, urgency |-> None, purpose |-> None, notes |-> None]

InterestLevels == {"bajo", "medio", "alto", "muy alto", "otro"}

\* the keys update_lead_from_extraction reads from the extraction with .get()
ExtractKeys == FieldMapKeys \cup {"name"}

\* one falsy and two truthy choices per key, used for extractions that mention
\* every key at once
FalsyValue(k) ==
    CASE k \in {"min_budget", "max_budget", "bedrooms", "bathrooms", "min_sqm"} -> 0
      [] k = "parking" -> FALSE
      [] OTHER -> ""

FirstValue(k) ==
    CASE k = "operation" -> "comprar"  [] k = "property_type" -> "piso"
      [] k = "zone" -> "Centro"        [] k = "min_budget" -> 100000
      [] k = "max_budget" -> 200000    [] k = "bedrooms" -> 3
      [] k = "bathrooms" -> 2          [] k = "min_sqm" -> 80
      [] k = "parking" -> TRUE         [] k = "urgency" -> "inmediata"
      [] k = "purpose" -> "inversion"  [] k = "name" -> "Ana"

SecondValue(k) ==
    CASE k = "zone" -> "Triana"        [] k = "max_budget" -> 300000
      [] k = "urgency" -> "sin prisa"  [] k = "name" -> "Luis"
      [] OTHER -> FirstValue(k)

NoKeys == [k \in ExtractKeys |-> None]

\* the key/value part of an extraction: nothing mentioned, one key mentioned,
\* or every key mentioned (all falsy, or one of two truthy choices)
MentionedKeys ==
    {NoKeys}
    \cup {[NoKeys EXCEPT ![k] = Some(FirstValue(k))] : k \in ExtractKeys}
    \cup {[k \in ExtractKeys |-> Some(FalsyValue(k))],
          [k \in ExtractKeys |-> Some(FirstValue(k))],
          [k \in ExtractKeys |-> Some(SecondValue(k))]}

\* The qualitative signals of an extraction: every interest level on its own,
\* visit intent on its own, a request for a human on its own, and all at once.
\* interest_level "otro" stands for any value that is not a key of
\* interest_points; wants_visit / wants_human_agent are the truthiness of the
\* reported values.
Signals ==
    [interest_level : InterestLevels, wants_visit : {FALSE}, wants_human_agent : {FALSE}]
    \cup {[interest_level |-> "bajo", wants_visit |-> TRUE, wants_human_agent |-> FALSE],
          [interest_level |-> "bajo", wants_visit |-> FALSE, wants_human_agent |-> TRUE],
          [interest_level |-> "muy alto", wants_visit |-> TRUE, wants_human_agent |-> TRUE]}

\* A parsed extraction (the dict json.loads returns in extract_lead_info);
\* nonempty is the truthiness of the dict itself.
Extractions ==
    {[keys |-> k, interest_level |-> s.interest_level, wants_visit |-> s.wants_visit,
      wants_human_agent |-> s.wants_human_agent, nonempty |-> TRUE] :
        k \in MentionedKeys, s \in Signals}

\* the {} that extract_lead_info returns when the response cannot be parsed
EmptyExtraction ==
    [keys |-> NoKeys, interest_level |-> "bajo", wants_visit |-> FALSE,
     wants_human_agent |-> FALSE, nonempty |-> FALSE]

\* the value of `extracted` before any call
NoExtraction == EmptyExtraction

----------------------------------------------------------------------------
\* tools/crm.py

\* a merge that lets every mentioned value replace the known one
MergePreferencesOverwrite(prefs, e) ==
    [f \in DOMAIN prefs |->
        IF f \in FieldMapKeys /\ e.keys[f] # None THEN e.keys[f] ELSE prefs[f]]

\* the `for ext_key, pref_key in field_map.items()` loop (lines 109-113)
MergePreferences(prefs, e) ==
    [f \in DOMAIN prefs |->
        IF f \in FieldMapKeys /\ e.keys[f] # None /\ prefs[f] = None
        THEN e.keys[f]
        ELSE prefs[f]]

\* a name merge that forgets the known name when the extraction reports none
MergeNameReplace(name, e) ==
    IF TruthyStr(e.keys["name"]) /\ ~TruthyStr(name) THEN e.keys["name"]
    ELSE IF e.keys["name"] = None THEN None ELSE name

\* lines 116-119
MergeName(name, e) ==
    IF TruthyStr(e.keys["name"]) /\ ~TruthyStr(name) THEN e.keys["name"] ELSE name

\* a table that counts an unlisted level as "medio"
interest_points_lenient(interest) ==
    CASE interest = "bajo" -> 0
      [] interest = "medio" -> 5
      [] interest = "alto" -> 10
      [] interest = "muy alto" -> 15
      [] OTHER -> 5

\* interest_points.get(interest, 0) (crm.py lines 182-184)
interest_points(interest) ==
    CASE interest = "bajo" -> 0
      [] interest = "medio" -> 5
      [] interest = "alto" -> 10
      [] interest = "muy alto" -> 15
      [] OTHER -> 0

\* the sum calculate_lead_score builds before clamping (lines 157-193)
RawScore(l, e) ==
    LET prefs == l.preferences IN
      (IF TruthyStr(prefs.operation) THEN 10 ELSE 0)
    + (IF TruthyStr(prefs.property_type) THEN 10 ELSE 0)
    + (IF TruthyStr(prefs.zone) THEN 15 ELSE 0)
    + (IF TruthyNum(prefs.max_budget) \/ TruthyNum(prefs.min_budget) THEN 15 ELSE 0)
    + (IF TruthyNum(prefs.bedrooms) THEN 5 ELSE 0)
    + (IF TruthyStr(prefs.urgency)
       THEN 10 + (IF prefs.urgency[1] \in {"inmediata", "1-3 meses"} THEN 10 ELSE 0)
       ELSE 0)
    + (IF TruthyStr(prefs.purpose) THEN 5 ELSE 0)
    + (IF TruthyStr(l.name) THEN 5 ELSE 0)
    + (IF e.nonempty
       THEN interest_points(e.interest_level) + (IF e.wants_visit THEN 15 ELSE 0)
       ELSE 0)
    + (IF l.total_interactions >= 3 THEN 5 ELSE 0)
    + (IF l.total_interactions >= 5 THEN 5 ELSE 0)

\* a score without the final min(score, 100)
calculate_lead_score_unclamped(l, e) == RawScore(l, e)

\* a score that adds the new points to the score already held
calculate_lead_score_incremental(l, e) == Min(l.score + RawScore(l, e), 100)

calculate_lead_score(l, e) == Min(RawScore(l, e), 100)

\* a labelling whose thresholds are exclusive
get_score_label_exclusive(score) ==
    IF score < LEAD_SCORE_COLD THEN "curioso"
    ELSE IF score < LEAD_SCORE_WARM THEN "interesado"
    ELSE IF score < LEAD_SCORE_HOT THEN "caliente"
    ELSE "listo_para_comprar"

get_score_label(score) ==
    IF score <= LEAD_SCORE_COLD THEN "curioso"
    ELSE IF score <= LEAD_SCORE_WARM THEN "interesado"
    ELSE IF score <= LEAD_SCORE_HOT THEN "caliente"
    ELSE "listo_para_comprar"

\* a status rule that forgets to look at the current status
NextStatusAnyStatus(status, score) ==
    IF score >= LEAD_SCORE_HOT THEN "cualificado"
    ELSE IF score >= LEAD_SCORE_WARM THEN "contactado"
    ELSE status

\* lines 126-130
NextStatus(status, score) ==
    IF score >= LEAD_SCORE_HOT /\ status = "nuevo" THEN "cualificado"
    ELSE IF score >= LEAD_SCORE_WARM /\ status = "nuevo" THEN "contactado"
    ELSE status

\* the Lead object update_lead_from_extraction returns (lines 91-130)
UpdatedLead(l, e) ==
    LET prefs == MergePreferences(l.preferences, e)
        named == [l EXCEPT !.name = MergeName(l.name, e), !.preferences = prefs]
        score == calculate_lead_score(named, e)
    IN  [named EXCEPT !.score = score,
                      !.score_label = get_score_label(score),
                      !.status = NextStatus(l.status, score)]

----------------------------------------------------------------------------
\* tools/database.py: the "leads" table holds at most the row of this contact
NoRecord == <<>>

\* update_lead: rewrites the given columns of the row with that id; a failed
\* call or an id that matches no row changes nothing
update_lead(db, up, id, data) ==
    IF up /\ db # NoRecord /\ id = Some(db[1].id)
    THEN <<[c \in DOMAIN db[1] |-> IF c \in DOMAIN data THEN data[c] ELSE db[1][c]]>>
    ELSE db

\* create_task: one more row in "tasks" unless the call fails
create_task(n, up) == IF up THEN n + 1 ELSE n

\* create_lead: inserts the row unless the call fails
create_lead(db, up, data) == IF up THEN <<data>> ELSE db

\* get_lead_by_phone: the row, or nothing when there is none or the call fails
get_lead_by_phone(db, up) == IF up THEN db ELSE NoRecord

----------------------------------------------------------------------------
\* Lead(): the pydantic defaults (models/database_models.py)
DefaultLead ==
    [id |-> None, name |-> None, status |-> "nuevo", score |-> 0,
     score_label |-> "curioso", preferences |-> LeadPreferences,
     total_interactions |-> 0]

\* the names a channel may report for a new contact (profile_name or None)
ProfileNames == {None, Some("Ana")}

LeadId == "L1"

\* the body of get_or_create_lead (tools/crm.py lines 28-83): the row it
\* leaves in the store and the Lead it returns
identify_lead(name) ==
         LET existing == get_lead_by_phone(dbLead, dbUp) IN
         IF existing # NoRecord
         THEN /\ dbLead' = update_lead(dbLead, dbUp, Some(existing[1].id),
                     [total_interactions |-> existing[1].total_interactions + 1])
              /\ lead' = [id |-> Some(existing[1].id),
                          name |-> existing[1].name,
                          status |-> existing[1].status,
                          score |-> existing[1].score,
                          score_label |-> existing[1].score_label,
                          preferences |-> existing[1].preferences,
                          total_interactions |-> existing[1].total_interactions + 1]
         ELSE LET lead_data == [id |-> LeadId, name |-> name, status |-> "nuevo",
                                score |-> 0, score_label |-> "curioso",
                                preferences |-> LeadPreferences,
                                total_interactions |-> 1]
                  result == create_lead(dbLead, dbUp, lead_data)
              IN /\ dbLead' = result
                 /\ lead' = [DefaultLead EXCEPT
                                !.id = IF dbUp THEN Some(LeadId) ELSE None,
                                !.name = name,
                                !.total_interactions = 1]

\* get_or_create_lead (tools/crm.py lines 19-83)
get_or_create_lead ==
    /\ turns < MaxTurns
    /\ turns' = turns + 1
    /\ \E name \in ProfileNames : identify_lead(name)
    /\ extracted' = NoExtraction   \* a new inbound message: the transcript changed
    /\ again' = FALSE
    /\ scoreBefore' = lead'.score
    /\ UNCHANGED <<dbUp, hotTasks, handoffTasks, calls, loopVars, funVars, convVars, webVars, passVars, raceVars, repeatVars, visitVars>>

\* update_lead_from_extraction (tools/crm.py lines 86-149) on the current lead
update_lead_from_extraction(e) ==
    LET l == UpdatedLead(lead, e) IN
    /\ lead' = l
    /\ dbLead' = update_lead(dbLead, dbUp, l.id,
                    [name |-> l.name, preferences |-> l.preferences,
                     score |-> l.score, score_label |-> l.score_label,
                     status |-> l.status])
    /\ hotTasks' = IF l.score >= LEAD_SCORE_HOT
                   THEN create_task(hotTasks, dbUp) ELSE hotTasks
    /\ handoffTasks' = IF e.wants_human_agent
                       THEN create_task(handoffTasks, dbUp) ELSE handoffTasks

\* qualify_lead (tools/lead_qualifier.py lines 15-44) for a lead without id:
\* the cache holds no entry for it and Conversation(lead_id=None, ...) fails
\* validation (conversation_manager.py lines 31-52), so the call raises at
\* line 27 with nothing changed
qualify_lead_raises ==
    /\ turns > 0 /\ calls < MaxCalls
    /\ lead.id = None
    /\ calls' = calls + 1
    /\ again' = FALSE
    /\ scoreBefore' = lead.score
    /\ UNCHANGED <<lead, dbLead, dbUp, hotTasks, handoffTasks, turns, extracted, loopVars, funVars, convVars, webVars, passVars, raceVars, repeatVars, visitVars>>

\* qualify_lead (tools/lead_qualifier.py lines 15-44), its three outcomes
qualify_no_messages ==
    /\ turns > 0 /\ calls < MaxCalls
    /\ lead.id # None
    /\ calls' = calls + 1
    /\ again' = FALSE
    /\ scoreBefore' = lead.score
    /\ UNCHANGED <<lead, dbLead, dbUp, hotTasks, handoffTasks, turns, extracted, loopVars, funVars, convVars, webVars, passVars, raceVars, repeatVars, visitVars>>

qualify_no_extraction ==
    /\ turns > 0 /\ calls < MaxCalls
    /\ lead.id # None
    /\ calls' = calls + 1
    /\ again' = FALSE
    /\ scoreBefore' = lead.score
    /\ UNCHANGED <<lead, dbLead, dbUp, hotTasks, handoffTasks, turns, extracted, loopVars, funVars, convVars, webVars, passVars, raceVars, repeatVars, visitVars>>

qualify_lead ==
    /\ turns > 0 /\ calls < MaxCalls
    /\ lead.id # None
    /\ extracted = NoExtraction    \* the callers qualify once per inbound message
    /\ calls' = calls + 1
    /\ \E e \in Extractions : update_lead_from_extraction(e) /\ extracted' = e
    /\ again' = FALSE
    /\ scoreBefore' = lead.score
    /\ UNCHANGED <<dbUp, turns, loopVars, funVars, convVars, webVars, passVars, raceVars, repeatVars, visitVars>>

\* the same call once more in the same turn: same transcript, same extraction
qualify_lead_again ==
    /\ turns > 0 /\ calls < MaxCalls
    /\ lead.id # None
    /\ extracted # NoExtraction
    /\ calls' = calls + 1
    /\ update_lead_from_extraction(extracted)
    /\ again' = TRUE
    /\ scoreBefore' = lead.score
    /\ UNCHANGED <<dbUp, turns, extracted, loopVars, funVars, convVars, webVars, passVars, raceVars, repeatVars, visitVars>>

----------------------------------------------------------------------------
\* the states in which a part of the model is not in use
LeadInit ==
    /\ lead = DefaultLead
    /\ dbLead = NoRecord
    /\ hotTasks = 0
    /\ handoffTasks = 0
    /\ calls = 0
    /\ turns = 0
    /\ extracted = NoExtraction
    /\ again = FALSE
    /\ scoreBefore = 0

LoopIdle ==
    /\ pc = "idle"
    /\ mode = "tools"
    /\ round = 0
    /\ svcCalls = 0
    /\ trace = <<>>
    /\ messages = <<>>
    /\ pending = <<>>
    /\ executed = None
    /\ reply = None

ScoreIdle ==
    /\ scoreIn = [lead |-> DefaultLead, extracted |-> EmptyExtraction]
    /\ scoreOut = None

NurtureIdle ==
    /\ nurtureIn = [days_since_contact |-> 0, score |-> 0, interactions |-> 0]
    /\ nurtureOut = [returned |-> FALSE, action |-> None]

ExtractIdle ==
    /\ responseText = None
    /\ extractOut = None

WindowIdle ==
    /\ windowIn = [id |-> None, messages |-> <<>>]
    /\ windowOut = None

\* no pure function is being evaluated
FunIdle == ScoreIdle /\ NurtureIdle /\ WindowIdle /\ ExtractIdle

\* the turns that may be in flight for the same lead and channel
Turns == {1, 2}

\* a turn that is not inside add_message
IdleTurn == [pc |-> "idle", message |-> None, conversation |-> None, data |-> <<>>,
             conversation_id |-> None]

\* an empty cache and an empty "conversations" table, no turn in flight
ConvIdle ==
    /\ cache = None
    /\ convs = <<>>
    /\ dbConvs = <<>>
    /\ turn = [t \in Turns |-> IdleTurn]
    /\ appended = <<>>
    /\ overlapped = FALSE /\ readFailed = FALSE /\ writeFailed = FALSE
    /\ cleared = FALSE

WebIdle ==
    /\ hpc = "idle"
    /\ inbound = None
    /\ prompt = None
    /\ fault = None
    /\ sent = 0

PassIdle ==
    /\ storeLeads = <<>>
    /\ jobPc = "idle"
    /\ leads = <<>>
    /\ cursor = 0
    /\ actions_taken = [messages_sent |-> 0, emails_sent |-> 0,
                        leads_processed |-> 0, errors |-> 0]
    /\ handled = <<>>
    /\ summary = None

RaceIdle ==
    /\ leadRows = <<>>
    /\ wturn = <<>>
    /\ creates = 0

RepeatIdle ==
    /\ passNo = 0
    /\ lastPass = <<>>

VisitIdle ==
    /\ calendar = <<>>
    /\ runNo = 0
    /\ reminders = <<>>

\* Lead qualification over a few turns of one contact
Init ==
    /\ LeadInit /\ dbUp \in BOOLEAN
    /\ LoopIdle /\ FunIdle /\ ConvIdle /\ WebIdle /\ VisitIdle /\ RepeatIdle /\ RaceIdle /\ PassIdle

Next ==
    \/ get_or_create_lead
    \/ qualify_lead_raises
    \/ qualify_no_messages
    \/ qualify_no_extraction
    \/ qualify_lead
    \/ qualify_lead_again

Spec == Init /\ [][Next]_vars

----------------------------------------------------------------------------
\* tools/ai_engine.py: one generate_response invocation

max_tool_rounds == 3    \* default of _generate_with_tools
max_retries == 3        \* default of _generate_openai_compatible

\* the two fixed texts (abbreviated)
StillProcessing == Some("Estoy procesando tu solicitud.")
Apology == Some("Lo siento, estoy teniendo dificultades tecnicas.")

Providers == {"openai", "gemini", "anthropic"}

\* the text of an answer: absent, empty or a sentence
Contents == {None, Some(""), Some("Hola")}

\* `choice.message.content or ""`
ContentOrEmpty(c) == IF TruthyStr(c) THEN c ELSE Some("")

\* the functions the reasoning service may name: the six of AGENT_TOOLS and
\* one that is not in the dispatch
ToolNames == {"search_properties", "get_property_details", "schedule_visit",
              "check_availability", "calculate_mortgage", "transfer_to_human",
              "otra"}

\* the argument string of an action request: a JSON object with well-formed
\* arguments, text that is not JSON, a JSON object without the required
\* argument, a JSON object whose required argument has an invalid value
ArgShapes == {"valid", "not_json", "missing", "invalid_value"}

\* json.loads with `except json.JSONDecodeError: func_args = {}` (lines 407-410):
\* an unparseable string becomes the empty dict, which lacks every argument
ParseArguments(shape) == IF shape = "not_json" THEN "missing" ELSE shape

\* a dispatch that ends in `raise` for a name it does not know
execute_tool_call_result_strict(name, arguments) ==
    IF name \in {"search_properties", "transfer_to_human"} THEN "result"
    ELSE "raise"

\* _execute_tool_call(name, arguments): the kind of string it returns, or
\* "raise" when an exception leaves it
execute_tool_call_result(name, arguments) ==
    CASE name = "search_properties" -> "result"
      [] name = "get_property_details" ->
            IF arguments = "missing" THEN "raise"                  \* arguments["reference"]
            ELSE IF arguments = "invalid_value" THEN "error_description"
            ELSE "result"
      [] name = "schedule_visit" ->
            IF arguments = "valid" THEN "result" ELSE "error_description"
      [] name = "check_availability" ->
            IF arguments = "valid" THEN "result" ELSE "raise"      \* strptime in get_available_slots
      [] name = "calculate_mortgage" ->
            IF arguments = "valid" THEN "result" ELSE "raise"      \* arguments["price"], price * pct
      [] name = "transfer_to_human" -> "result"
      [] OTHER -> "not_implemented"

\* the membership test with an upper end that is off by one
in_range_inclusive(r, n) == r <= n

\* `for x in range(n)`: whether the loop body runs for this x
in_range(r, n) == r < n

Message(role, id, content) == [role |-> role, tool_call_id |-> id, content |-> content]

Outcome(kind, content) == [kind |-> kind, content |-> content]

\* generate_response (lines 321-364): builds the messages and picks the branch
generate_response ==
    /\ pc = "idle"
    /\ \E provider \in Providers, enable_tools \in BOOLEAN :
         mode' = IF provider = "anthropic" THEN "anthropic"
                 ELSE IF enable_tools /\ provider \in {"openai", "gemini"} THEN "tools"
                 ELSE "plain"
    /\ messages' = <<Message("system", None, "text"), Message("user", None, "text")>>
    /\ pc' = "call"
    /\ round' = 0
    /\ UNCHANGED <<svcCalls, trace, pending, executed, reply, leadVars, funVars, convVars, webVars, passVars, raceVars, repeatVars, visitVars>>

\* a loop that gives up after its first iteration
NextRoundOnce ==
    /\ round' = round + 1
    /\ pc' = "done" /\ reply' = StillProcessing

\* the end of an iteration of `for _round in range(max_tool_rounds)`: the next
\* one, or the return after the loop (line 429)
NextRound ==
    /\ round' = round + 1
    /\ IF in_range(round + 1, max_tool_rounds)
       THEN pc' = "call" /\ reply' = reply
       ELSE pc' = "done" /\ reply' = StillProcessing

\* one iteration of _generate_with_tools up to the answer of the service
\* (lines 379-426)
tools_service_call ==
    /\ pc = "call" /\ mode = "tools" /\ in_range(round, max_tool_rounds)
    /\ svcCalls' = svcCalls + 1
    /\ \/ \* 429: sleep, continue
          /\ trace' = Append(trace, Outcome("rate_limit", None))
          /\ NextRound
          /\ UNCHANGED <<messages, pending>>
       \/ \* any other exception
          /\ trace' = Append(trace, Outcome("fault", None))
          /\ pc' = "done" /\ reply' = Apology
          /\ UNCHANGED <<round, messages, pending>>
       \/ \* an answer without action requests to run
          /\ \E c \in Contents, kind \in {"text", "tool_calls_empty"} :
               /\ trace' = Append(trace, Outcome(kind, c))
               /\ reply' = ContentOrEmpty(c)
          /\ pc' = "done"
          /\ UNCHANGED <<round, messages, pending>>
       \/ \* finish_reason "tool_calls" with n action requests
          /\ \E n \in 1..MaxToolCalls :
               pending' = [i \in 1..n |-> round * MaxToolCalls + i]
          /\ trace' = Append(trace, Outcome("tool_calls", None))
          /\ messages' = Append(messages, Message("assistant", None, "tool_calls"))
          /\ pc' = "tools"
          /\ UNCHANGED <<round, reply>>
    /\ UNCHANGED <<mode, executed, leadVars, funVars, convVars, webVars, passVars, raceVars, repeatVars, visitVars>>

\* the body of `for tool_call in choice.message.tool_calls` (lines 405-420)
\* for the next action request
execute_tool_call ==
    /\ pc = "tools" /\ pending # <<>>
    /\ \E name \in ToolNames, shape \in ArgShapes :
         LET result == execute_tool_call_result(name, ParseArguments(shape)) IN
         /\ executed' = Some([name |-> name, arguments |-> shape, result |-> result])
         /\ IF result = "raise"
            THEN /\ pc' = "raised"
                 /\ UNCHANGED <<round, messages, pending, reply>>
            ELSE /\ messages' = Append(messages, Message("tool", Some(Head(pending)), result))
                 /\ pending' = Tail(pending)
                 /\ IF Tail(pending) = <<>>
                    THEN NextRound
                    ELSE UNCHANGED <<pc, round, reply>>
    /\ UNCHANGED <<mode, svcCalls, trace, leadVars, funVars, convVars, webVars, passVars, raceVars, repeatVars, visitVars>>

\* one attempt of _generate_openai_compatible (lines 432-458)
plain_service_call ==
    /\ pc = "call" /\ mode = "plain" /\ in_range(round, max_retries)
    /\ svcCalls' = svcCalls + 1
    /\ \/ \E c \in Contents :
            /\ trace' = Append(trace, Outcome("text", c))
            /\ pc' = "done" /\ reply' = c
            /\ UNCHANGED round
       \/ /\ trace' = Append(trace, Outcome("rate_limit", None))
          /\ IF round < max_retries - 1
             THEN round' = round + 1 /\ UNCHANGED <<pc, reply>>
             ELSE pc' = "done" /\ reply' = Apology /\ UNCHANGED round
       \/ /\ trace' = Append(trace, Outcome("fault", None))
          /\ pc' = "done" /\ reply' = Apology
          /\ UNCHANGED round
    /\ UNCHANGED <<mode, messages, pending, executed, leadVars, funVars, convVars, webVars, passVars, raceVars, repeatVars, visitVars>>

\* _generate_anthropic (lines 461-487): one call, every exception caught
anthropic_service_call ==
    /\ pc = "call" /\ mode = "anthropic"
    /\ svcCalls' = svcCalls + 1
    /\ \/ \E c \in Contents \ {None} :
            /\ trace' = Append(trace, Outcome("text", c))
            /\ reply' = c
       \/ \E kind \in {"rate_limit", "fault"} :
            /\ trace' = Append(trace, Outcome(kind, None))
            /\ reply' = Apology
    /\ pc' = "done"
    /\ UNCHANGED <<mode, round, messages, pending, executed, leadVars, funVars, convVars, webVars, passVars, raceVars, repeatVars, visitVars>>

InitLoop ==
    /\ LeadInit /\ dbUp = TRUE
    /\ LoopIdle /\ FunIdle /\ ConvIdle /\ WebIdle /\ VisitIdle /\ RepeatIdle /\ RaceIdle /\ PassIdle

NextLoop ==
    \/ generate_response
    \/ tools_service_call
    \/ execute_tool_call
    \/ plain_service_call
    \/ anthropic_service_call

SpecLoop == InitLoop /\ [][NextLoop]_vars

----------------------------------------------------------------------------
\* calculate_lead_score on its own, over every combination of its inputs

\* the preference sets handed to it: each scored field absent or present,
\* max_budget also present and 0, every urgency value
ScoredPreferences ==
    {[LeadPreferences EXCEPT !.operation = op, !.property_type = pt, !.zone = z,
                             !.min_budget = mn, !.max_budget = mx, !.bedrooms = b,
                             !.urgency = u, !.purpose = pu] :
        op \in {None, Some("comprar")}, pt \in {None, Some("piso")},
        z \in {None, Some("Centro")}, mn \in {None, Some(100000)},
        mx \in {None, Some(0), Some(200000)}, b \in {None, Some(3)},
        u \in {None, Some("inmediata"), Some("1-3 meses"), Some("sin prisa")},
        pu \in {None, Some("inversion")}}

\* the extraction argument: None / {} or a dict with its two signals
ScoredExtractions ==
    {EmptyExtraction}
    \cup {[keys |-> NoKeys, interest_level |-> i, wants_visit |-> v,
           wants_human_agent |-> FALSE, nonempty |-> TRUE] :
            i \in InterestLevels, v \in BOOLEAN}

\* the score the lead holds when the function is called
PreviousScores == {0, 90}

InitScore ==
    /\ LeadInit /\ dbUp = TRUE /\ LoopIdle /\ NurtureIdle /\ WindowIdle /\ ExtractIdle /\ ConvIdle /\ WebIdle /\ VisitIdle /\ RepeatIdle /\ RaceIdle /\ PassIdle
    /\ \E prefs \in ScoredPreferences, name \in ProfileNames, n \in 1..MaxInteractions,
          e \in ScoredExtractions, previous \in PreviousScores :
         scoreIn = [lead |-> [DefaultLead EXCEPT !.preferences = prefs, !.name = name,
                                                 !.total_interactions = n,
                                                 !.score = previous,
                                                 !.score_label = get_score_label(previous)],
                    extracted |-> e]
    /\ scoreOut = None

\* the call
score_lead ==
    /\ scoreOut = None
    /\ scoreOut' = Some(calculate_lead_score(scoreIn.lead, scoreIn.extracted))
    /\ UNCHANGED <<scoreIn, nurtureVars, windowVars, extractVars, leadVars, loopVars, convVars, webVars, passVars, raceVars, repeatVars, visitVars>>

NextScore == score_lead

SpecScore == InitScore /\ [][NextScore]_vars

----------------------------------------------------------------------------
\* Qualification of a lead that the store holds in any lifecycle status (the
\* status column is also edited outside this program)

InitStatus ==
    /\ \E status \in LeadStatus :
         /\ lead = [DefaultLead EXCEPT !.id = Some(LeadId), !.status = status,
                                       !.total_interactions = 1]
         /\ dbLead = <<[id |-> LeadId, name |-> None, status |-> status, score |-> 0,
                        score_label |-> "curioso", preferences |-> LeadPreferences,
                        total_interactions |-> 1]>>
    /\ dbUp = TRUE
    /\ hotTasks = 0 /\ handoffTasks = 0
    /\ calls = 0 /\ turns = 1
    /\ extracted = NoExtraction /\ again = FALSE /\ scoreBefore = 0
    /\ LoopIdle /\ FunIdle /\ ConvIdle /\ WebIdle /\ VisitIdle /\ RepeatIdle /\ RaceIdle /\ PassIdle

NextQualify ==
    \/ qualify_no_messages
    \/ qualify_no_extraction
    \/ qualify_lead
    \/ qualify_lead_again

SpecStatus == InitStatus /\ [][NextQualify]_vars

----------------------------------------------------------------------------
\* tools/nurturing_engine.py: _evaluate_nurturing_rules on its own

\* the rules in the order the function tests them
NurturingOrder == <<"hot_lead_urgency", "warm_lead_nudge", "post_first_contact",
                    "cold_lead_reactivation">>

\* the condition of each `if` of the function
RuleHolds(rule, days_since_contact, score, interactions) ==
    CASE rule = "hot_lead_urgency" -> score >= 60 /\ days_since_contact >= 2
      [] rule = "warm_lead_nudge" ->
            30 <= score /\ score < 60 /\ days_since_contact >= 3
      [] rule = "post_first_contact" ->
            /\ interactions <= 2 /\ score < 30
            /\ 1 <= days_since_contact /\ days_since_contact <= 2
      [] rule = "cold_lead_reactivation" -> score < 30 /\ days_since_contact >= 7

NurturingAction(type, channel, template) ==
    [type |-> type, channel |-> channel, template |-> template]

\* a rule set whose first rule forgets the inactivity condition
evaluate_nurturing_rules_no_inactivity(days_since_contact, score, interactions) ==
    IF score >= 60
    THEN Some(NurturingAction("hot_lead_urgency", "whatsapp", "hot_lead"))
    ELSE IF 30 <= score /\ score < 60 /\ days_since_contact >= 3
    THEN Some(NurturingAction("warm_lead_nudge", "whatsapp", "warm_nudge"))
    ELSE IF interactions <= 2 /\ score < 30
            /\ 1 <= days_since_contact /\ days_since_contact <= 2
    THEN Some(NurturingAction("post_first_contact", "whatsapp", "first_followup"))
    ELSE IF score < 30 /\ days_since_contact >= 7
    THEN Some(NurturingAction("cold_lead_reactivation", "email", "reactivation"))
    ELSE None

\* _evaluate_nurturing_rules (lines 115-155): the action dict, or None
evaluate_nurturing_rules(days_since_contact, score, interactions) ==
    IF score >= 60 /\ days_since_contact >= 2
    THEN Some(NurturingAction("hot_lead_urgency", "whatsapp", "hot_lead"))
    ELSE IF 30 <= score /\ score < 60 /\ days_since_contact >= 3
    THEN Some(NurturingAction("warm_lead_nudge", "whatsapp", "warm_nudge"))
    ELSE IF interactions <= 2 /\ score < 30
            /\ 1 <= days_since_contact /\ days_since_contact <= 2
    THEN Some(NurturingAction("post_first_contact", "whatsapp", "first_followup"))
    ELSE IF score < 30 /\ days_since_contact >= 7
    THEN Some(NurturingAction("cold_lead_reactivation", "email", "reactivation"))
    ELSE None

\* days_since_contact as process_nurturing computes it: the whole days since
\* last_contact, or 999 for a lead without one (line 91)
DaysSinceContact == 0..MaxDays \cup {999}

InitNurture ==
    /\ LeadInit /\ dbUp = TRUE /\ LoopIdle /\ ScoreIdle /\ WindowIdle /\ ExtractIdle /\ ConvIdle /\ WebIdle /\ VisitIdle /\ RepeatIdle /\ RaceIdle /\ PassIdle
    /\ \E d \in DaysSinceContact, s \in 0..100, i \in 0..MaxInteractions :
         nurtureIn = [days_since_contact |-> d, score |-> s, interactions |-> i]
    /\ nurtureOut = [returned |-> FALSE, action |-> None]

\* the call
evaluate_lead ==
    /\ ~nurtureOut.returned
    /\ nurtureOut' = [returned |-> TRUE,
                      action |-> evaluate_nurturing_rules(nurtureIn.days_since_contact,
                                     nurtureIn.score, nurtureIn.interactions)]
    /\ UNCHANGED <<nurtureIn, scoreVars, windowVars, extractVars, leadVars, loopVars, convVars, webVars, passVars, raceVars, repeatVars, visitVars>>

NextNurture == evaluate_lead

SpecNurture == InitNurture /\ [][NextNurture]_vars

----------------------------------------------------------------------------
\* tools/conversation_manager.py: the conversation of one (lead, channel),
\* appended to by up to two turns. A turn is suspended where the code awaits
\* the store: the read inside get_or_create_conversation and the write inside
\* _save_conversation.

Roles == {"user", "assistant"}

\* Message(role=role, content=content, ...); timestamp is datetime.now() of
\* the construction, a reading of a clock
NewMessage(role, content, timestamp) ==
    [role |-> role, content |-> content, timestamp |-> timestamp]

\* the dict _save_conversation writes for a message (lines 118-123), the
\* timestamp in ISO format
message_row(m) ==
    [role |-> m.role, content |-> m.content, timestamp |-> <<"iso", m.timestamp>>]

\* Message(**m) for a stored dict (line 43): the timestamp is parsed back
message_from_row(d) ==
    [role |-> d.role, content |-> d.content, timestamp |-> d.timestamp[2]]

\* [m.model_dump() for m in conversation.messages] (line 113)
message_rows(msgs) == [i \in 1..Len(msgs) |-> message_row(msgs[i])]

\* [Message(**m) for m in existing.get("messages", [])] (line 43)
messages_from_rows(rows) == [i \in 1..Len(rows) |-> message_from_row(rows[i])]

\* Conversation(...): a new object, from the stored row or empty (lines 39-52)
NewConversation(row) ==
    IF row = None
    THEN [id |-> None, messages |-> <<>>]
    ELSE [id |-> Some(row[1].id), messages |-> messages_from_rows(row[1].messages)]

\* what get_conversation_by_lead may return: nothing when the call fails or
\* no row matches, else a matching row (the query states no order)
ReadResults == {None} \cup {Some(dbConvs[i]) : i \in 1..Len(dbConvs)}

\* get_conversation_by_lead (database.py lines 161-175) when the call succeeds
\* (a matching row if there is one) and when it fails
get_conversation_by_lead(ok) ==
    IF ok /\ dbConvs # <<>> THEN ReadResults \ {None} ELSE {None}

\* an append that builds a new list for the store and leaves the cached
\* object as it was
AppendAndSaveDetached(t, obj, m, objs) ==
    LET grown == [objs[obj] EXCEPT !.messages = Append(@, m)] IN
    /\ convs' = objs
    /\ appended' = Append(appended, m)
    /\ turn' = [turn EXCEPT ![t] = [pc |-> "write", message |-> Some(m),
                                    conversation |-> Some(obj),
                                    data |-> message_rows(grown.messages),
                                    conversation_id |-> grown.id]]

\* conversation.messages.append(message), then the arguments of
\* upsert_conversation are built (lines 75-125); the turn is then suspended in
\* the store write
AppendAndSave(t, obj, m, objs) ==
    LET grown == [objs[obj] EXCEPT !.messages = Append(@, m)] IN
    /\ convs' = [objs EXCEPT ![obj] = grown]
    /\ appended' = Append(appended, m)
    /\ turn' = [turn EXCEPT ![t] = [pc |-> "write", message |-> Some(m),
                                    conversation |-> Some(obj),
                                    data |-> message_rows(grown.messages),
                                    conversation_id |-> grown.id]]

\* Every awaited store call is taken as a point where another turn may run,
\* which the coroutine interface of tools/database.py allows.
\* add_message up to its first suspension (lines 59-81): a cache hit goes on
\* to the append, a miss waits for the store read
add_message_begin(t) ==
    /\ turn[t].pc = "idle"
    /\ Len(appended) + Cardinality({u \in Turns : turn[u].pc = "read"}) < MaxAppends
    /\ overlapped' = (overlapped \/ \E u \in Turns : turn[u].pc # "idle")
    /\ \E role \in Roles :
         LET serial == Len(appended) + Cardinality({u \in Turns : turn[u].pc = "read"}) + 1
             m == NewMessage(role, ToString(serial), serial)
         IN
         IF cache # None
         THEN /\ AppendAndSave(t, cache[1], m, convs)
              /\ UNCHANGED cache
         ELSE /\ turn' = [turn EXCEPT ![t] = [IdleTurn EXCEPT !.pc = "read", !.message = Some(m)]]
              /\ UNCHANGED <<cache, convs, appended>>
    /\ UNCHANGED <<dbConvs, readFailed, writeFailed, cleared, leadVars, loopVars, funVars, webVars, passVars, raceVars, repeatVars, visitVars>>

\* the store read returns: the Conversation object is built and cached, the
\* message appended (lines 37-56, 75-81)
conversation_read(t) ==
    /\ turn[t].pc = "read"
    /\ \E ok \in BOOLEAN :
         /\ readFailed' = (readFailed \/ ~ok)
         /\ \E row \in get_conversation_by_lead(ok) :
              LET objs == Append(convs, NewConversation(row)) IN
              /\ cache' = Some(Len(objs))
              /\ AppendAndSave(t, Len(objs), turn[t].message[1], objs)
    /\ UNCHANGED <<dbConvs, overlapped, writeFailed, cleared, leadVars, loopVars, funVars, webVars, passVars, raceVars, repeatVars, visitVars>>

\* a persist that writes only the newest message of the list
upsert_conversation_incremental(rows, conversation_id, data) ==
    IF conversation_id # None
    THEN [i \in 1..Len(rows) |->
            IF rows[i].id = conversation_id[1]
            THEN [rows[i] EXCEPT !.messages = <<data[Len(data)]>>]
            ELSE rows[i]]
    ELSE Append(rows, [id |-> Len(rows) + 1, messages |-> <<data[Len(data)]>>])

\* a persist that inserts a row whatever the id
upsert_conversation_insert_only(rows, conversation_id, data) ==
    Append(rows, [id |-> Len(rows) + 1, messages |-> data])

\* upsert_conversation(conversation_id, data) (database.py lines 178-194)
\* on the rows: an update of the row with that id, or an insert
upsert_conversation(rows, conversation_id, data) ==
    IF conversation_id # None
    THEN [i \in 1..Len(rows) |->
            IF rows[i].id = conversation_id[1] THEN [rows[i] EXCEPT !.messages = data]
            ELSE rows[i]]
    ELSE Append(rows, [id |-> Len(rows) + 1, messages |-> data])

\* the store write returns (lines 125-129): add_message returns the
\* conversation
conversation_saved(t) ==
    /\ turn[t].pc = "write"
    /\ \E ok \in BOOLEAN :
         LET obj == turn[t].conversation[1]
             rows == upsert_conversation(dbConvs, turn[t].conversation_id, turn[t].data)
         IN
         /\ writeFailed' = (writeFailed \/ ~ok)
         /\ dbConvs' = IF ok THEN rows ELSE dbConvs
         /\ convs' = IF ok /\ convs[obj].id = None    \* `if result and not conversation.id`
                     THEN [convs EXCEPT ![obj].id = Some(Len(rows))]
                     ELSE convs
    /\ turn' = [turn EXCEPT ![t] = IdleTurn]
    /\ UNCHANGED <<cache, appended, overlapped, readFailed, cleared, leadVars, loopVars, funVars, webVars, passVars, raceVars, repeatVars, visitVars>>

\* clear_cache(), or the process starting again with no turn in flight
clear_cache ==
    /\ cache # None
    /\ \A t \in Turns : turn[t].pc = "idle"
    /\ cache' = None
    /\ cleared' = TRUE
    /\ UNCHANGED <<convs, dbConvs, turn, appended, overlapped, readFailed, writeFailed,
                   leadVars, loopVars, funVars, webVars, passVars, raceVars, repeatVars, visitVars>>

InitConv ==
    /\ LeadInit /\ dbUp = TRUE
    /\ LoopIdle /\ FunIdle /\ ConvIdle /\ WebIdle /\ VisitIdle /\ RepeatIdle /\ RaceIdle /\ PassIdle

NextConv ==
    \/ \E t \in Turns : add_message_begin(t)
    \/ \E t \in Turns : conversation_read(t)
    \/ \E t \in Turns : conversation_saved(t)
    \/ clear_cache

SpecConv == InitConv /\ [][NextConv]_vars

----------------------------------------------------------------------------
\* tools/conversation_manager.py: get_context_messages as a function of the
\* conversation

MAX_CONTEXT_MESSAGES == 20

\* seq[-k:] of Python for k > 0
LastItems(seq, k) ==
    LET n == Len(seq)
        start == IF n - k > 0 THEN n - k ELSE 0
    IN SubSeq(seq, start + 1, n)

\* a window that truncates the conversation in place and hands out what is left
get_context_messages_in_place(conversation) ==
    LET recent == LastItems(conversation.messages, MAX_CONTEXT_MESSAGES) IN
    [context |-> [i \in 1..Len(recent) |->
                     [role |-> recent[i].role, content |-> recent[i].content]],
     conversation |-> [conversation EXCEPT !.messages = recent]]

\* get_context_messages (lines 87-97): the list it returns and the
\* conversation as the call leaves it
get_context_messages(conversation) ==
    LET recent == LastItems(conversation.messages, MAX_CONTEXT_MESSAGES) IN
    [context |-> [i \in 1..Len(recent) |->
                     [role |-> recent[i].role, content |-> recent[i].content]],
     conversation |-> conversation]

OtherRole(role) == IF role = "user" THEN "assistant" ELSE "user"

\* the conversations handed to the function: n messages numbered in order of
\* time, user and assistant taking turns from `first` on, except that from
\* message `unanswered` on the roles are swapped (an inbound message that got
\* no reply, or none when unanswered = 0)
History(n, first, unanswered) ==
    [i \in 1..n |->
        LET role == IF i % 2 = 1 THEN first ELSE OtherRole(first) IN
        NewMessage(IF unanswered # 0 /\ i >= unanswered THEN OtherRole(role) ELSE role,
                   ToString(i), i)]

InitWindow ==
    /\ \E n \in 0..MaxMessages, first \in Roles :
         \E unanswered \in 0..n :
            windowIn = [id |-> None, messages |-> History(n, first, unanswered)]
    /\ windowOut = None
    /\ LeadInit /\ dbUp = TRUE /\ LoopIdle /\ ScoreIdle /\ NurtureIdle /\ ExtractIdle /\ ConvIdle /\ WebIdle /\ VisitIdle /\ RepeatIdle /\ RaceIdle /\ PassIdle

\* the call
context_messages ==
    /\ windowOut = None
    /\ LET result == get_context_messages(windowIn) IN
         /\ windowOut' = Some(result.context)
         /\ windowIn' = result.conversation
    /\ UNCHANGED <<scoreVars, nurtureVars, extractVars, leadVars, loopVars, convVars, webVars, passVars, raceVars, repeatVars, visitVars>>

NextWindow == context_messages

SpecWindow == InitWindow /\ [][NextWindow]_vars

----------------------------------------------------------------------------
\* routers/whatsapp.py: the inbound webhook handler, one turn at a time. The
\* handlers of routers/email.py, routers/instagram.py and routers/portals.py
\* make the same calls in the same order.


\* add_message (conversation_manager.py lines 59-84) run from call to return
\* with no other turn in between: `row` is what the store read returned when
\* the cache missed, writeOk whether the store write succeeded
add_message(role, content, row, writeOk) ==
    LET objs == IF cache # None THEN convs ELSE Append(convs, NewConversation(row))
        obj == IF cache # None THEN cache[1] ELSE Len(objs)
        m == NewMessage(role, content, Len(appended) + 1)
        grown == [objs EXCEPT ![obj].messages = Append(@, m)]
        rows == upsert_conversation(dbConvs, grown[obj].id,
                                    message_rows(grown[obj].messages))
    IN /\ cache' = Some(obj)
       /\ appended' = Append(appended, m)
       /\ dbConvs' = IF writeOk THEN rows ELSE dbConvs
       /\ convs' = IF writeOk /\ grown[obj].id = None
                   THEN [grown EXCEPT ![obj].id = Some(Len(rows))]
                   ELSE grown
       /\ writeFailed' = (writeFailed \/ ~writeOk)

\* a history handed on as the window returned it
keep_trailing_user(context) == context

\* `if context_messages and context_messages[-1]["role"] == "user":
\*      context_messages = context_messages[:-1]` (whatsapp.py lines 105-106)
strip_trailing_user(context) ==
    IF context # <<>> /\ context[Len(context)].role = "user"
    THEN SubSeq(context, 1, Len(context) - 1)
    ELSE context

\* the list generate_response builds (ai_engine.py lines 347-352): the system
\* prompt, the history when it is not empty, the user message
build_messages(user_message, conversation_history) ==
    <<[role |-> "system", content |-> "SYSTEM_PROMPT"]>>
        \o conversation_history
        \o <<[role |-> "user", content |-> user_message]>>

\* what the handler gets from generate_response: a text, the empty text, a
\* null content handed on as the reply, or an exception out of an action
\* handler
ReplyOutcomes == {"text", "empty", "null", "raised"}

\* what extract_lead_info hands qualify_lead in a handled turn: nothing, a
\* first mention of a few facts, or a complete answer with every signal
WebExtractions ==
    {EmptyExtraction,
     [keys |-> [NoKeys EXCEPT !["zone"] = Some(FirstValue("zone"))],
      interest_level |-> "medio", wants_visit |-> FALSE,
      wants_human_agent |-> FALSE, nonempty |-> TRUE],
     [keys |-> [k \in ExtractKeys |-> Some(FirstValue(k))],
      interest_level |-> "muy alto", wants_visit |-> TRUE,
      wants_human_agent |-> TRUE, nonempty |-> TRUE]}

\* lines 46-63: the message is parsed and the lead identified
webhook_received ==
    /\ hpc \in {"idle", "raised"}
    /\ turns < MaxWebTurns
    /\ turns' = turns + 1
    /\ \E name \in ProfileNames : identify_lead(name)
    /\ inbound' = Some(ToString(Len(appended) + 1))
    /\ prompt' = None
    /\ fault' = None
    /\ hpc' = "lead"
    /\ UNCHANGED <<dbUp, hotTasks, handoffTasks, calls, extracted, again, scoreBefore,
                   sent, loopVars, funVars, convVars, passVars, raceVars, repeatVars, visitVars>>

\* lines 66-71: add_message(lead.id, "user", user_message). For a lead without
\* id the cache has no entry and Conversation(lead_id=None, ...) fails
\* validation (conversation_manager.py lines 31-52): the handler catches
\* nothing, so the exception leaves it
store_inbound ==
    /\ hpc = "lead"
    /\ IF lead.id = None
       THEN /\ hpc' = "raised"
            /\ fault' = Some("Conversation(lead_id=None)")
            /\ UNCHANGED <<cache, convs, dbConvs, appended, readFailed, writeFailed>>
       ELSE /\ \E readOk \in BOOLEAN, writeOk \in BOOLEAN :
                 /\ readFailed' = (readFailed \/ (cache = None /\ ~readOk))
                 /\ \E row \in get_conversation_by_lead(readOk) :
                       add_message("user", inbound[1], row, writeOk)
            /\ hpc' = "stored"
            /\ UNCHANGED fault
    /\ UNCHANGED <<turn, overlapped, cleared, inbound, prompt, sent,
                   leadVars, loopVars, funVars, passVars, raceVars, repeatVars, visitVars>>

\* lines 73-119 up to the request to the reasoning service: the conversation
\* comes from the cache, where add_message left it
ask_reasoning_service ==
    /\ hpc = "stored"
    /\ LET conversation == convs[cache[1]]
           history == strip_trailing_user(get_context_messages(conversation).context)
       IN prompt' = Some(build_messages(inbound[1], history))
    /\ hpc' = "asked"
    /\ UNCHANGED <<inbound, fault, sent, leadVars, loopVars, funVars, convVars, passVars, raceVars, repeatVars, visitVars>>

\* lines 108-127: generate_response returns or raises; the reply is stored
\* with add_message, where Message(content=None) fails validation
store_reply ==
    /\ hpc = "asked"
    /\ \E outcome \in ReplyOutcomes :
         CASE outcome = "raised" ->
                /\ hpc' = "raised"
                /\ fault' = Some("generate_response")
                /\ UNCHANGED <<cache, convs, dbConvs, appended, writeFailed>>
           [] outcome = "null" ->
                /\ hpc' = "raised"
                /\ fault' = Some("Message(content=None)")
                /\ UNCHANGED <<cache, convs, dbConvs, appended, writeFailed>>
           [] OTHER ->
                /\ \E writeOk \in BOOLEAN :
                      add_message("assistant",
                                  IF outcome = "empty" THEN ""
                                  ELSE ToString(Len(appended) + 1),
                                  None, writeOk)
                /\ hpc' = "replied"
                /\ UNCHANGED fault
    /\ UNCHANGED <<turn, overlapped, readFailed, cleared, inbound, prompt, sent,
                   leadVars, loopVars, funVars, passVars, raceVars, repeatVars, visitVars>>

\* lines 129-150: qualify_lead on every third interaction and on the first
\* two, then the reply is sent
qualify_and_send ==
    /\ hpc = "replied"
    /\ IF lead.total_interactions % 3 = 0 \/ lead.total_interactions <= 2
       THEN \E e \in WebExtractions :
               IF e.nonempty THEN update_lead_from_extraction(e)
               ELSE UNCHANGED <<lead, dbLead, hotTasks, handoffTasks>>
       ELSE UNCHANGED <<lead, dbLead, hotTasks, handoffTasks>>
    /\ sent' = sent + 1
    /\ hpc' = "idle"
    /\ UNCHANGED <<dbUp, calls, turns, extracted, again, scoreBefore,
                   inbound, prompt, fault, loopVars, funVars, convVars, passVars, raceVars, repeatVars, visitVars>>

\* the process starts again between two turns
restart ==
    /\ hpc \in {"idle", "raised"}
    /\ clear_cache

\* the lengths of the conversation the contact had before: none, a first
\* exchange, and conversations around the length of the window
PriorLengths ==
    {0, 2, MAX_CONTEXT_MESSAGES - 2, MAX_CONTEXT_MESSAGES - 1,
     MAX_CONTEXT_MESSAGES, MAX_CONTEXT_MESSAGES + 1}

\* a contact with no history, or one whose n = 2k or 2k - 1 earlier messages
\* (the last inbound one answered or not) are stored and, unless the process
\* started again since, cached
InitWeb ==
    /\ \E n \in PriorLengths, cached \in BOOLEAN :
         LET prior == History(n, "user", 0) IN
         /\ (n = 0 => ~cached)
         /\ lead = DefaultLead
         /\ dbLead = IF n = 0 THEN NoRecord
                     ELSE <<[id |-> LeadId, name |-> None, status |-> "nuevo",
                             score |-> 0, score_label |-> "curioso",
                             preferences |-> LeadPreferences,
                             total_interactions |-> (n + 1) \div 2]>>
         /\ dbConvs = IF n = 0 THEN <<>>
                      ELSE <<[id |-> 1, messages |-> message_rows(prior)]>>
         /\ convs = IF cached THEN <<[id |-> Some(1), messages |-> prior]>> ELSE <<>>
         /\ cache = IF cached THEN Some(1) ELSE None
         /\ appended = prior
    /\ dbUp \in BOOLEAN
    /\ hotTasks = 0 /\ handoffTasks = 0 /\ calls = 0 /\ turns = 0
    /\ extracted = NoExtraction /\ again = FALSE /\ scoreBefore = 0
    /\ turn = [t \in Turns |-> IdleTurn]
    /\ overlapped = FALSE /\ readFailed = FALSE /\ writeFailed = FALSE
    /\ cleared = FALSE
    /\ LoopIdle /\ FunIdle /\ WebIdle /\ VisitIdle /\ RepeatIdle /\ RaceIdle /\ PassIdle

NextWeb ==
    \/ webhook_received
    \/ store_inbound
    \/ ask_reasoning_service
    \/ store_reply
    \/ qualify_and_send
    \/ restart

SpecWeb == InitWeb /\ [][NextWeb]_vars

----------------------------------------------------------------------------
\* tools/ai_engine.py: extract_lead_info on the text the service returned, and
\* qualify_lead around it. A text is a sequence of pieces: a fence of three
\* backquotes, the word after an opening fence, a line break, a blank, the
\* text of a JSON object, and words that are no JSON.

Fence == "fence"
LineBreak == "line break"
Pieces == {Fence, "json", LineBreak, "blank", "object", "words"}

Whitespace == {LineBreak, "blank"}

\* the body of a response: absent (content null) or a text
ResponseTexts ==
    {None} \cup {Some(t) : t \in UNION {[1..n -> Pieces] : n \in 0..MaxTokens}}

\* str.strip()
strip(t) ==
    LET inked == {i \in 1..Len(t) : t[i] \notin Whitespace} IN
    IF inked = {} THEN <<>>
    ELSE SubSeq(t, CHOOSE i \in inked : \A j \in inked : i <= j,
                   CHOOSE i \in inked : \A j \in inked : i >= j)

\* cleaned.split(line break, 1): the parts around the first line break
split_newline(t) ==
    LET breaks == {i \in 1..Len(t) : t[i] = LineBreak} IN
    IF breaks = {} THEN <<t>>
    ELSE LET i == CHOOSE b \in breaks : \A c \in breaks : b <= c IN
         <<SubSeq(t, 1, i - 1), SubSeq(t, i + 1, Len(t))>>

\* cleaned.rsplit(fence, 1)[0]: the part before the last fence, or everything
rsplit_fence_first(t) ==
    LET fences == {i \in 1..Len(t) : t[i] = Fence} IN
    IF fences = {} THEN t
    ELSE SubSeq(t, 1, (CHOOSE f \in fences : \A g \in fences : f >= g) - 1)

\* json.loads: a JSON object, blanks around it allowed, is parsed; any other
\* text is a JSONDecodeError
json_loads(t) == IF strip(t) = <<"object">> THEN "dict" ELSE "JSONDecodeError"

\* the dict a parsed response stands for
ParsedExtraction ==
    [keys |-> [NoKeys EXCEPT !["zone"] = Some(FirstValue("zone")),
                             !["name"] = Some(FirstValue("name"))],
     interest_level |-> "alto", wants_visit |-> TRUE,
     wants_human_agent |-> FALSE, nonempty |-> TRUE]

\* extract_lead_info from the response on (lines 535-543): only
\* json.JSONDecodeError is caught
extract_lead_info(response_text) ==
    IF response_text = None
    THEN [kind |-> "raised", value |-> "AttributeError"]      \* None.strip()
    ELSE LET cleaned == strip(response_text[1])
             parts == split_newline(cleaned)
         IN IF cleaned # <<>> /\ cleaned[1] = Fence /\ Len(parts) < 2
            THEN [kind |-> "raised", value |-> "IndexError"]  \* split(...)[1]
            ELSE LET inner == IF cleaned # <<>> /\ cleaned[1] = Fence
                              THEN rsplit_fence_first(parts[2])
                              ELSE cleaned
                 IN IF json_loads(inner) = "dict"
                    THEN [kind |-> "parsed", value |-> ParsedExtraction]
                    ELSE [kind |-> "unparsed", value |-> EmptyExtraction]

\* the lead qualify_lead is called with: known to the store, nothing merged yet
KnownLead ==
    [DefaultLead EXCEPT !.id = Some(LeadId), !.total_interactions = 1]

InitExtract ==
    /\ responseText \in ResponseTexts
    /\ extractOut = None
    /\ lead = KnownLead
    /\ dbLead = <<[id |-> LeadId, name |-> None, status |-> "nuevo", score |-> 0,
                   score_label |-> "curioso", preferences |-> LeadPreferences,
                   total_interactions |-> 1]>>
    /\ dbUp = TRUE
    /\ hotTasks = 0 /\ handoffTasks = 0
    /\ calls = 0 /\ turns = 1
    /\ extracted = NoExtraction /\ again = FALSE /\ scoreBefore = 0
    /\ LoopIdle /\ ScoreIdle /\ NurtureIdle /\ WindowIdle /\ ConvIdle /\ WebIdle /\ VisitIdle /\ RepeatIdle /\ RaceIdle /\ PassIdle

\* qualify_lead (lead_qualifier.py lines 15-44) on a conversation with
\* messages, for the response the extraction request got
qualify_lead_on_response ==
    /\ extractOut = None
    /\ calls' = calls + 1
    /\ LET result == extract_lead_info(responseText) IN
         /\ extractOut' = Some(result)
         /\ IF result.kind = "parsed"
            THEN update_lead_from_extraction(result.value) /\ extracted' = result.value
            ELSE UNCHANGED <<lead, dbLead, hotTasks, handoffTasks, extracted>>
    /\ again' = FALSE
    /\ scoreBefore' = lead.score
    /\ UNCHANGED <<responseText, dbUp, turns, scoreVars, nurtureVars, windowVars,
                   loopVars, convVars, webVars, passVars, raceVars, repeatVars, visitVars>>

NextExtract == qualify_lead_on_response

SpecExtract == InitExtract /\ [][NextExtract]_vars


-----------------------------------------------------------------------------
\* tools/scheduled_tasks.py, tools/database.py, tools/nurturing_engine.py:
\* one run of the scheduled nurturing job over a "leads" table of two rows.
\* A phone is the sequence of the pieces of its text, so that
\* startswith("ig:") can be asked of it; "" is the empty sequence.

\* a stored last_contact: a time `days` whole days before the pass, whose text
\* process_nurturing can turn into a day count (usable) or not (fromisoformat,
\* or the subtraction from the naive datetime.now(), raises)
Timestamp(days, usable) == [days |-> days, usable |-> usable]

StoreStatuses == {"nuevo", "cerrado_ganado", "cerrado_perdido", "inactivo"}
StoreScores == {10, 80}
StoreLastContacts ==
    {None, Some(Timestamp(0, TRUE)), Some(Timestamp(MaxDays, TRUE)),
     Some(Timestamp(MaxDays, FALSE))}
StorePhones == {<<>>, <<"ig:", "17">>, <<"+34600">>}
StoreEmails == {"", "ana@example.com"}

\* a row of "leads" as get_active_leads returns it (select "*")
LeadRow(id, status, score, last_contact, phone, email) ==
    [id |-> id, status |-> status, score |-> score,
     score_label |-> get_score_label(score),
     preferences |-> [zone |-> None, property_type |-> None],
     total_interactions |-> 3, last_contact |-> last_contact,
     phone |-> phone, email |-> email]

\* .limit(100) of get_active_leads
active_leads_limit == 100

\* .order("last_contact", desc=True): r comes no later than s; a row without
\* last_contact sorts first, as NULLs do in a descending order
OrderedBefore(r, s) ==
    \/ r.last_contact = None
    \/ s.last_contact # None /\ r.last_contact[1].days <= s.last_contact[1].days

RECURSIVE InsertOrdered(_, _)
InsertOrdered(r, rows) ==
    IF rows = <<>> THEN <<r>>
    ELSE IF OrderedBefore(r, Head(rows)) THEN <<r>> \o rows
    ELSE <<Head(rows)>> \o InsertOrdered(r, Tail(rows))

RECURSIVE order_by_last_contact_desc(_)
order_by_last_contact_desc(rows) ==
    IF rows = <<>> THEN <<>>
    ELSE InsertOrdered(rows[Len(rows)],
                       order_by_last_contact_desc(SubSeq(rows, 1, Len(rows) - 1)))

\* .neq("status", "cerrado").neq("status", "descartado")
IsSelected(row) == row.status # "cerrado" /\ row.status # "descartado"

\* get_active_leads (database.py lines 296-312): the selected rows in order,
\* or [] when the query raises
get_active_leads(rows, ok) ==
    IF ~ok THEN <<>>
    ELSE LET ordered == order_by_last_contact_desc(SelectSeq(rows, IsSelected))
         IN  SubSeq(ordered, 1, IF Len(ordered) < active_leads_limit
                                 THEN Len(ordered) ELSE active_leads_limit)

\* phone.startswith("ig:")
startswith_ig(phone) == phone # <<>> /\ phone[1] = "ig:"

NurturingChannels == {"whatsapp", "email", "both"}

\* what one send did: not attempted, delivered, or attempted and failed
NotAttempted == "none"

\* _execute_nurturing_action (lines 158-195): the WhatsApp send and then the
\* email send, each under its own condition and inside its own try/except.
\* send_whatsapp_message returns an error dict when its send fails, send_email
\* raises; neither failure leaves this function.
execute_nurturing_action(l, action, whatsappOk, emailOk) ==
    [whatsapp |->
        IF action.channel \in {"whatsapp", "both"} /\ l.phone # <<>>
              /\ ~startswith_ig(l.phone)
        THEN IF whatsappOk THEN "sent" ELSE "failed"
        ELSE NotAttempted,
     email |->
        IF action.channel \in {"email", "both"} /\ l.email # ""
        THEN IF emailOk THEN "sent" ELSE "failed"
        ELSE NotAttempted]

\* the dict process_nurturing starts from (lines 78-83)
NoActionsTaken ==
    [messages_sent |-> 0, emails_sent |-> 0, leads_processed |-> 0, errors |-> 0]

\* one iteration of the for loop of process_nurturing (lines 86-110) on lead
\* l: the summary after it, and what was done for the lead
nurture_one(l, taken, whatsappOk, emailOk) ==
    LET raised == l.last_contact # None /\ ~l.last_contact[1].usable
        days_since == IF l.last_contact = None THEN 999
                      ELSE l.last_contact[1].days
        action == IF raised THEN None
                  ELSE evaluate_nurturing_rules(days_since, l.score,
                                                l.total_interactions)
        done == IF action = None
                THEN [whatsapp |-> NotAttempted, email |-> NotAttempted]
                ELSE execute_nurturing_action(l, action[1], whatsappOk, emailOk)
    IN  [actions_taken |->
            IF raised THEN [taken EXCEPT !.errors = @ + 1]
            ELSE IF action = None THEN taken
            ELSE [taken EXCEPT
                    !.leads_processed = @ + 1,
                    !.messages_sent =
                        IF action[1].channel \in {"whatsapp", "both"}
                        THEN @ + 1 ELSE @,
                    !.emails_sent =
                        IF action[1].channel \in {"email", "both"}
                        THEN @ + 1 ELSE @],
         entry |-> [id |-> l.id, raised |-> raised, action |-> action,
                    whatsapp |-> done.whatsapp, email |-> done.email]]

\* job_nurturing (scheduled_tasks.py lines 21-40) up to the entry of
\* process_nurturing: the active leads are read and the summary starts empty
job_nurturing ==
    /\ jobPc = "idle"
    /\ \E ok \in BOOLEAN : leads' = get_active_leads(storeLeads, ok)
    /\ jobPc' = "loop"
    /\ cursor' = 1
    /\ actions_taken' = NoActionsTaken
    /\ handled' = <<>>
    /\ UNCHANGED <<storeLeads, summary, leadVars, loopVars, funVars, convVars, webVars, raceVars, repeatVars, visitVars>>

\* a loop whose try/except is outside the for: the first lead that raises
\* ends the pass
process_lead_aborting ==
    /\ jobPc = "loop"
    /\ cursor <= Len(leads)
    /\ \E whatsappOk, emailOk \in BOOLEAN :
         LET after == nurture_one(leads[cursor], actions_taken, whatsappOk, emailOk)
         IN  /\ actions_taken' = after.actions_taken
             /\ handled' = Append(handled, after.entry)
             /\ IF after.entry.raised
                THEN cursor' = Len(leads) + 1
                ELSE cursor' = cursor + 1
    /\ UNCHANGED <<storeLeads, jobPc, leads, summary, leadVars, loopVars, funVars, convVars, webVars, raceVars, repeatVars, visitVars>>

\* a loop body that stamps the lead it acted on as contacted now, in the
\* record and in the store
process_lead_touching ==
    /\ jobPc = "loop"
    /\ cursor <= Len(leads)
    /\ \E whatsappOk, emailOk \in BOOLEAN :
         LET after == nurture_one(leads[cursor], actions_taken, whatsappOk, emailOk)
             acted == after.entry.action # None
             touch(row) == IF acted /\ row.id = leads[cursor].id
                           THEN [row EXCEPT !.last_contact = Some(Timestamp(0, TRUE))]
                           ELSE row
         IN  /\ actions_taken' = after.actions_taken
             /\ handled' = Append(handled, after.entry)
             /\ leads' = [i \in 1..Len(leads) |-> touch(leads[i])]
             /\ storeLeads' = [i \in 1..Len(storeLeads) |-> touch(storeLeads[i])]
    /\ cursor' = cursor + 1
    /\ UNCHANGED <<jobPc, summary, leadVars, loopVars, funVars, convVars, webVars, raceVars, repeatVars, visitVars>>

\* the loop body of process_nurturing for the next lead of the list
process_lead ==
    /\ jobPc = "loop"
    /\ cursor <= Len(leads)
    /\ \E whatsappOk, emailOk \in BOOLEAN :
         LET after == nurture_one(leads[cursor], actions_taken, whatsappOk, emailOk)
         IN  /\ actions_taken' = after.actions_taken
             /\ handled' = Append(handled, after.entry)
    /\ cursor' = cursor + 1
    /\ UNCHANGED <<storeLeads, jobPc, leads, summary, leadVars, loopVars, funVars, convVars, webVars, raceVars, repeatVars, visitVars>>

\* return actions_taken (line 112)
process_nurturing_return ==
    /\ jobPc = "loop"
    /\ cursor > Len(leads)
    /\ summary' = Some(actions_taken)
    /\ jobPc' = "returned"
    /\ UNCHANGED <<storeLeads, leads, cursor, actions_taken, handled, leadVars, loopVars, funVars, convVars, webVars, raceVars, repeatVars, visitVars>>

\* _execute_nurturing_action called on its own for the first row, with an
\* action of any channel
execute_nurturing_action_alone ==
    /\ jobPc = "idle"
    /\ \E channel \in NurturingChannels, whatsappOk, emailOk \in BOOLEAN :
         LET l == storeLeads[1]
             action == NurturingAction("hot_lead_urgency", channel, "hot_lead")
             done == execute_nurturing_action(l, action, whatsappOk, emailOk)
         IN  handled' = <<[id |-> l.id, raised |-> FALSE, action |-> Some(action),
                           whatsapp |-> done.whatsapp, email |-> done.email]>>
    /\ jobPc' = "alone"
    /\ UNCHANGED <<storeLeads, leads, cursor, actions_taken, summary, leadVars, loopVars, funVars, convVars, webVars, raceVars, repeatVars, visitVars>>

InitPass ==
    /\ LeadInit /\ dbUp = TRUE
    /\ LoopIdle /\ FunIdle /\ ConvIdle /\ WebIdle /\ VisitIdle /\ RepeatIdle /\ RaceIdle
    /\ \E sa, sb \in StoreStatuses, ca, cb \in StoreScores,
          ta, tb \in StoreLastContacts, pa, pb \in StorePhones,
          ea, eb \in StoreEmails :
         storeLeads = <<LeadRow("a", sa, ca, ta, pa, ea),
                        LeadRow("b", sb, cb, tb, pb, eb)>>
    /\ jobPc = "idle"
    /\ leads = <<>>
    /\ cursor = 0
    /\ actions_taken = NoActionsTaken
    /\ handled = <<>>
    /\ summary = None

NextPass ==
    \/ job_nurturing
    \/ process_lead
    \/ process_nurturing_return
    \/ execute_nurturing_action_alone

\* the job is scheduled and its steps are taken
SpecPassFair == InitPass /\ [][NextPass]_vars /\ WF_vars(NextPass)

SpecPass == InitPass /\ [][NextPass]_vars


-----------------------------------------------------------------------------
\* routers/whatsapp.py, tools/crm.py, tools/database.py: two webhook turns of
\* the same phone on the "leads" table. A turn is suspended where the code
\* awaits: after get_lead_by_phone, and between get_or_create_lead and
\* qualify_lead (the handler awaits the reasoning service in between). The
\* lookup may fail; the writes succeed.

\* .update(data).eq("id", lead_id) on the rows of the table
update_lead_row(rows, id, data) ==
    [i \in 1..Len(rows) |->
        IF rows[i].id = id
        THEN [c \in DOMAIN rows[i] |-> IF c \in DOMAIN data THEN data[c] ELSE rows[i][c]]
        ELSE rows[i]]

\* the Lead get_or_create_lead builds from the row it found (crm.py lines 37-52)
LeadFromRow(existing) ==
    [id |-> Some(existing.id), name |-> existing.name, status |-> existing.status,
     score |-> existing.score, score_label |-> existing.score_label,
     preferences |-> existing.preferences,
     total_interactions |-> existing.total_interactions + 1]

\* the row get_or_create_lead inserts for a new contact (crm.py lines 55-67)
NewLeadRow(id, name) ==
    [id |-> id, name |-> name, status |-> "nuevo", score |-> 0,
     score_label |-> "curioso", preferences |-> LeadPreferences,
     total_interactions |-> 1]

\* a turn that has not called get_or_create_lead yet
IdleWebTurn == [pc |-> "idle", existing |-> None, lead |-> DefaultLead]

\* what the transcript of a turn may make extract_lead_info report: the zone
\* alone or the budget alone
RaceExtractions ==
    {e \in Extractions :
        /\ e.interest_level = "bajo" /\ ~e.wants_visit /\ ~e.wants_human_agent
        /\ e.keys \in {[NoKeys EXCEPT !["zone"] = Some(FirstValue("zone"))],
                       [NoKeys EXCEPT !["max_budget"] = Some(FirstValue("max_budget"))]}}

\* existing = await get_lead_by_phone(phone) (crm.py line 28): result.data[0],
\* or None when there is no row or the query raises (database.py lines 33-39)
webhook_lookup(t) ==
    /\ wturn[t].pc = "idle"
    /\ \E ok \in BOOLEAN :
         wturn' = [wturn EXCEPT ![t].pc = "looked",
                                ![t].existing = IF ok /\ leadRows # <<>>
                                                THEN Some(leadRows[1]) ELSE None]
    /\ UNCHANGED <<leadRows, creates, leadVars, loopVars, funVars, convVars, webVars, passVars, repeatVars, visitVars>>

\* the rest of get_or_create_lead (crm.py lines 30-83): the update of the row
\* found, or the insert of a new row
webhook_identify(t) ==
    /\ wturn[t].pc = "looked"
    /\ IF wturn[t].existing # None
       THEN LET existing == wturn[t].existing[1] IN
            /\ leadRows' = update_lead_row(leadRows, existing.id,
                              [total_interactions |-> existing.total_interactions + 1])
            /\ wturn' = [wturn EXCEPT ![t].pc = "loaded",
                                      ![t].lead = LeadFromRow(existing)]
            /\ UNCHANGED creates
       ELSE \E name \in ProfileNames :
            LET id == Len(leadRows) + 1 IN
            /\ leadRows' = Append(leadRows, NewLeadRow(id, name))
            /\ creates' = creates + 1
            /\ wturn' = [wturn EXCEPT ![t].pc = "loaded",
                                      ![t].lead = [DefaultLead EXCEPT
                                                      !.id = Some(id), !.name = name,
                                                      !.total_interactions = 1]]
    /\ UNCHANGED <<leadVars, loopVars, funVars, convVars, webVars, passVars, repeatVars, visitVars>>

\* step 7 of the handler (whatsapp.py lines 126-127): qualify_lead on the
\* Lead of the turn, when the interaction count asks for it;
\* update_lead_from_extraction rewrites name, preferences, score, tier and
\* status of the row (crm.py lines 132-139)
webhook_qualify(t) ==
    /\ wturn[t].pc = "loaded"
    /\ LET lead_t == wturn[t].lead IN
       IF lead_t.total_interactions % 3 = 0 \/ lead_t.total_interactions <= 2
       THEN \E e \in RaceExtractions :
              LET l == UpdatedLead(lead_t, e) IN
              /\ leadRows' = update_lead_row(leadRows, l.id[1],
                                [name |-> l.name, preferences |-> l.preferences,
                                 score |-> l.score, score_label |-> l.score_label,
                                 status |-> l.status])
              /\ wturn' = [wturn EXCEPT ![t].pc = "done", ![t].lead = l]
       ELSE /\ wturn' = [wturn EXCEPT ![t].pc = "done"]
            /\ UNCHANGED leadRows
    /\ UNCHANGED <<creates, leadVars, loopVars, funVars, convVars, webVars, passVars, repeatVars, visitVars>>

\* the interaction counts a stored row starts with
StoredInteractions == {1, 3}

InitRace ==
    /\ LeadInit /\ dbUp = TRUE
    /\ LoopIdle /\ FunIdle /\ ConvIdle /\ WebIdle /\ VisitIdle /\ RepeatIdle /\ PassIdle
    /\ \/ leadRows = <<>>
       \/ \E n \in StoredInteractions, zone \in {None, Some(SecondValue("zone"))} :
            leadRows = <<[NewLeadRow(1, None) EXCEPT
                            !.total_interactions = n, !.preferences.zone = zone]>>
    /\ wturn = [t \in Turns |-> IdleWebTurn]
    /\ creates = 0

NextRace ==
    \E t \in Turns : webhook_lookup(t) \/ webhook_identify(t) \/ webhook_qualify(t)

SpecRace == InitRace /\ [][NextRace]_vars


-----------------------------------------------------------------------------
\* tools/scheduled_tasks.py: job_nurturing at 9:00, 13:00 and 17:00
\* (setup_scheduled_tasks lines 125-132), run after run over the same table.
\* Nothing touches the leads between two runs; only time passes.

MaxPasses == 2

\* a stored last_contact some hours later: 4 or 16 hours add no whole day or one
Later(last_contact, d) ==
    IF last_contact = None THEN None
    ELSE Some([last_contact[1] EXCEPT !.days = @ + d])

\* the trigger fires again: the job starts over on the table as it is then
next_scheduled_pass ==
    /\ jobPc = "returned"
    /\ passNo < MaxPasses
    /\ passNo' = passNo + 1
    /\ lastPass' = handled
    /\ \E d \in {0, 1} :
         storeLeads' = [i \in 1..Len(storeLeads) |->
                          [storeLeads[i] EXCEPT !.last_contact = Later(@, d)]]
    /\ jobPc' = "idle"
    /\ leads' = <<>>
    /\ cursor' = 0
    /\ actions_taken' = NoActionsTaken
    /\ handled' = <<>>
    /\ summary' = None
    /\ UNCHANGED <<leadVars, loopVars, funVars, convVars, webVars, raceVars, visitVars>>

InitRepeat ==
    /\ LeadInit /\ dbUp = TRUE
    /\ LoopIdle /\ FunIdle /\ ConvIdle /\ WebIdle /\ VisitIdle /\ RaceIdle
    /\ \E ca, cb \in StoreScores, ta, tb \in StoreLastContacts :
         storeLeads = <<LeadRow("a", "nuevo", ca, ta, <<"+34600">>, "ana@example.com"),
                        LeadRow("b", "contactado", cb, tb, <<"+34611">>, "")>>
    /\ jobPc = "idle"
    /\ leads = <<>>
    /\ cursor = 0
    /\ actions_taken = NoActionsTaken
    /\ handled = <<>>
    /\ summary = None
    /\ passNo = 1
    /\ lastPass = <<>>

NextRepeat ==
    \/ job_nurturing
    \/ process_lead
    \/ process_nurturing_return
    \/ next_scheduled_pass

SpecRepeat == InitRepeat /\ [][NextRepeat]_vars


-----------------------------------------------------------------------------
\* tools/lead_qualifier.py: build_qualification_context

\* the `missing` list (lines 116-133), each entry named by the field it asks
\* for; the two budget fields share one entry
missing_fields(l) ==
    LET prefs == l.preferences IN
    {f \in {"zone", "budget", "operation", "property_type", "urgency", "name",
            "bedrooms", "purpose"} :
        CASE f = "zone" -> ~TruthyStr(prefs.zone)
          [] f = "budget" -> ~TruthyNum(prefs.max_budget) /\ ~TruthyNum(prefs.min_budget)
          [] f = "operation" -> ~TruthyStr(prefs.operation)
          [] f = "property_type" -> ~TruthyStr(prefs.property_type)
          [] f = "urgency" -> ~TruthyStr(prefs.urgency)
          [] f = "name" -> ~TruthyStr(l.name)
          [] f = "bedrooms" -> ~TruthyNum(prefs.bedrooms)
          [] f = "purpose" -> ~TruthyStr(prefs.purpose)}


-----------------------------------------------------------------------------
\* tools/scheduler.py: the calendar, the slots get_available_slots offers and
\* the schedule_visit action of the reasoning loop (tools/ai_engine.py lines
\* 240-274). A time is a number of minutes since 00:00 of day 0; day 0 is a
\* Friday.

DEFAULT_VISIT_DURATION == 45

At(day, hour, minute) == (day * 24 + hour) * 60 + minute

\* dt.strftime("%A").lower()
DayName(day) ==
    CASE day % 7 = 0 -> "friday"
      [] day % 7 = 1 -> "saturday"
      [] day % 7 = 2 -> "sunday"
      [] OTHER -> "monday"

\* the ranges of VISIT_HOURS used for a day (lines 98-103), as hours
TimeRanges(day_name) ==
    IF day_name = "saturday" THEN {[start |-> 10, end |-> 14]}
    ELSE {[start |-> 10, end |-> 13], [start |-> 16, end |-> 20]}

\* an event of the calendar; visit: its summary carries "Visita"; phone and
\* email: what _parse_visit_description finds in its description
Event(start, end, visit, phone, email) ==
    [start |-> start, end |-> end, visit |-> visit, phone |-> phone, email |-> email]

\* _get_events_for_date (lines 145-177): the events that day, [] when the
\* calendar cannot be read
events_for_date(day, events, ok) ==
    IF ~ok THEN <<>>
    ELSE SelectSeq(events, LAMBDA e : e.start >= At(day, 0, 0) /\ e.start < At(day + 1, 0, 0))

\* get_available_slots (lines 72-142): the start times it returns
get_available_slots(day, existing_events, duration_minutes) ==
    IF DayName(day) = "sunday" THEN {}
    ELSE UNION {
           {current \in {At(day, r.start, 0) + 30 * k : k \in 0..20} :
               /\ current + duration_minutes <= At(day, r.end, 0)
               /\ ~\E i \in 1..Len(existing_events) :
                     /\ current < existing_events[i].end
                     /\ current + duration_minutes > existing_events[i].start}
           : r \in TimeRanges(DayName(day))}

MaxEvents == 2

\* the dates and times the reasoning service may ask a visit for
BookDays == 0..2
BookTimes == {<<9, 0>>, <<10, 0>>, <<10, 30>>, <<12, 30>>, <<19, 30>>}

\* the schedule_visit branch of _execute_tool_call with a well-formed date and
\* time, and schedule_visit itself (scheduler.py lines 183-272): the event is
\* posted to the calendar; a failed post creates nothing
schedule_visit ==
    /\ Len(calendar) < MaxEvents
    /\ \E day \in BookDays, time \in BookTimes, posted \in BOOLEAN,
          email \in {"", "ana@example.com"} :
         LET start == At(day, time[1], time[2])
             end == start + DEFAULT_VISIT_DURATION
         IN  IF posted
             THEN /\ calendar' = Append(calendar, Event(start, end, TRUE, "+34600", email))
                  /\ reminders' = Append(reminders, [email |-> 0, whatsapp |-> 0])
             ELSE UNCHANGED <<calendar, reminders>>
    /\ UNCHANGED <<runNo, leadVars, loopVars, funVars, convVars, webVars, passVars, raceVars, repeatVars>>

InitBook ==
    /\ LeadInit /\ dbUp = TRUE
    /\ LoopIdle /\ FunIdle /\ ConvIdle /\ WebIdle /\ PassIdle /\ RaceIdle /\ RepeatIdle
    /\ \/ calendar = <<>>
       \/ calendar = <<Event(At(0, 16, 15), At(0, 17, 0), FALSE, "", "")>>
    /\ runNo = 0
    /\ reminders = [i \in 1..Len(calendar) |-> [email |-> 0, whatsapp |-> 0]]

NextBook == schedule_visit

SpecBook == InitBook /\ [][NextBook]_vars


-----------------------------------------------------------------------------
\* tools/reminder_service.py: send_visit_reminders, run by job_reminders every
\* hour on the hour from 8:00 to 21:00 (scheduled_tasks.py lines 134-141),
\* over two days; the visit is on day 1, a Saturday.

MaxRuns == 28

\* the moment the trigger of run number n (from 0) fires: 14 runs a day
TriggerTime(n) == At(n \div 14, 8 + (n % 14), 0)

\* minutes between the trigger and the datetime.now() of the run, which
\* follows the calendar request
RunDelays == {1, 5}

\* get_upcoming_visits(days=2) (scheduler.py lines 291-325): the visit events
\* between now and now + 2 days, [] when the calendar cannot be read
IsUpcoming(e, now, ok) ==
    ok /\ e.visit /\ e.end > now /\ e.start < now + At(2, 0, 0)

\* the two conditions of the loop body (reminder_service.py lines 46, 57)
EmailDue(time_until) == At(0, 23, 0) <= time_until /\ time_until <= At(0, 25, 0)
WhatsappDue(time_until) == At(0, 1, 50) <= time_until /\ time_until <= At(0, 2, 10)

\* one run of send_visit_reminders (lines 18-65)
send_visit_reminders ==
    /\ runNo < MaxRuns
    /\ \E delay \in RunDelays, ok \in BOOLEAN :
         LET now == TriggerTime(runNo) + delay IN
         reminders' = [i \in 1..Len(calendar) |->
            LET visit == calendar[i]
                time_until == visit.start - now
            IN  IF ~IsUpcoming(visit, now, ok) THEN reminders[i]
                ELSE [email |-> IF EmailDue(time_until) /\ visit.email # ""
                                THEN reminders[i].email + 1 ELSE reminders[i].email,
                      whatsapp |-> IF WhatsappDue(time_until) /\ visit.phone # ""
                                   THEN reminders[i].whatsapp + 1
                                   ELSE reminders[i].whatsapp]]
    /\ runNo' = runNo + 1
    /\ UNCHANGED <<calendar, leadVars, loopVars, funVars, convVars, webVars, passVars, raceVars, repeatVars>>

InitRemind ==
    /\ LeadInit /\ dbUp = TRUE
    /\ LoopIdle /\ FunIdle /\ ConvIdle /\ WebIdle /\ PassIdle /\ RaceIdle /\ RepeatIdle
    /\ \E start \in get_available_slots(1, <<>>, DEFAULT_VISIT_DURATION),
          phone \in {"", "+34600"}, email \in {"", "ana@example.com"} :
         calendar = <<Event(start, start + DEFAULT_VISIT_DURATION, TRUE, phone, email)>>
    /\ runNo = 0
    /\ reminders = <<[email |-> 0, whatsapp |-> 0]>>

NextRemind == send_visit_reminders

SpecRemind == InitRemind /\ [][NextRemind]_vars

----------------------------------------------------------------------------
\* Properties of lead qualification

\* a qualify_lead call has just been made in this step
QualifyStep == calls' = calls + 1

\* the points of the profile alone: known fields, name and interaction count
ProfileScore(l) == calculate_lead_score(l, EmptyExtraction)

\* the largest bonus an extraction's signals can add: "muy alto" and a visit
MaxSignalBonus == interest_points("muy alto") + 15

\* C1: fill-only merge. Across any qualify call a preference field of the merge
\* map that holds a value, and a name that holds a value, keep that value in
\* the lead; and the stored record never loses or changes such a value either,
\* whatever the extraction reports.
C1_FillOnlyMerge ==
    [][/\ QualifyStep =>
            /\ \A f \in FieldMapKeys :
                  lead.preferences[f] # None => lead'.preferences[f] = lead.preferences[f]
            /\ TruthyStr(lead.name) => lead'.name = lead.name
       /\ dbLead # NoRecord =>
            /\ dbLead' # NoRecord
            /\ \A f \in FieldMapKeys :
                  dbLead[1].preferences[f] # None =>
                      dbLead'[1].preferences[f] = dbLead[1].preferences[f]
            /\ TruthyStr(dbLead[1].name) => dbLead'[1].name = dbLead[1].name]_vars

\* C1 witness: the last extraction reported another zone and another budget
\* than the ones the lead already had, and the lead still has its own.
C1_RefusedOverwrite ==
    /\ extracted.keys["zone"] # None /\ TruthyStr(lead.preferences.zone)
    /\ extracted.keys["zone"] # lead.preferences.zone
    /\ extracted.keys["max_budget"] # None /\ TruthyNum(lead.preferences.max_budget)
    /\ extracted.keys["max_budget"] # lead.preferences.max_budget
    /\ extracted.keys["name"] # None /\ TruthyStr(lead.name)
    /\ extracted.keys["name"] # lead.name
    /\ dbLead # NoRecord /\ dbLead[1].preferences = lead.preferences

ThresholdBucket(score) ==
    IF score \in 0..25 THEN "curioso"
    ELSE IF score \in 26..50 THEN "interesado"
    ELSE IF score \in 51..75 THEN "caliente"
    ELSE "listo_para_comprar"

\* C7: the tier of the lead is the threshold bucket of its score, in memory
\* and in the stored record, and get_score_label is that bucket for every
\* score of 0..100, the boundaries 25, 26, 50, 51, 75, 76 included.
C7_TierIsBucket ==
    /\ lead.score_label = ThresholdBucket(lead.score)
    /\ dbLead # NoRecord => dbLead[1].score_label = ThresholdBucket(dbLead[1].score)
    /\ \A s \in 0..100 : get_score_label(s) = ThresholdBucket(s)

\* C7 witness: a call left the lead exactly on the boundary 75, tier caliente
C7_OnBoundary ==
    /\ calls > 0 /\ extracted # NoExtraction
    /\ lead.score = LEAD_SCORE_HOT /\ lead.score_label = "caliente"
    /\ dbLead # NoRecord /\ dbLead[1].score = LEAD_SCORE_HOT
    /\ dbLead[1].score_label = "caliente"

\* C9: a second qualify call with the same transcript and the same extraction
\* leaves the lead (name, preferences, score, tier, status) and its stored
\* record as the first call left them.
C9_QualifyIdempotent ==
    [][again' => (lead' = lead /\ dbLead' = dbLead)]_vars

\* C9 witness: the repeated call was made on an extraction that had filled
\* fields and earned points, for a lead kept in the store
C9_Repeated ==
    /\ again /\ extracted.keys["zone"] # None /\ extracted.wants_visit
    /\ lead.preferences.zone = extracted.keys["zone"]
    /\ lead.score > 0 /\ lead.status # "nuevo"
    /\ dbLead # NoRecord /\ dbLead[1].score = lead.score

\* C10 as stated: a follow-up task for a hot lead is created only by a call
\* that takes the score from below LEAD_SCORE_HOT to LEAD_SCORE_HOT or above.
C10_HotTaskOnlyOnCrossing ==
    [][hotTasks' # hotTasks =>
          (lead.score < LEAD_SCORE_HOT /\ lead'.score >= LEAD_SCORE_HOT)]_vars

----------------------------------------------------------------------------
\* Properties of one generate_response invocation

Last(seq) == seq[Len(seq)]

\* the invocation is over: it returned or an exception left it
Finished == pc \in {"done", "raised"}

\* the first n answers of the service were all action requests
AllToolRounds(n) == \A i \in 1..n : trace[i].kind = "tool_calls"

\* C2: one invocation makes at most max_tool_rounds calls to the reasoning
\* service, whatever each call returns (text, action requests, a rate-limit
\* fault, another fault), in every branch of generate_response.
C2_BoundedServiceCalls ==
    /\ svcCalls <= max_tool_rounds
    /\ Len(trace) = svcCalls

\* C2 witness: every round returned action requests, all were executed, and
\* the invocation ended after max_tool_rounds calls
C2_AllRoundsUsed ==
    /\ mode = "tools" /\ pc = "done"
    /\ svcCalls = max_tool_rounds /\ AllToolRounds(max_tool_rounds)

\* C3 as stated: a text answer on round k after k-1 rounds of action requests
\* is returned as it is after exactly k calls; and when all max_tool_rounds
\* rounds return action requests the invocation returns the "still
\* processing" text and raises nothing.
C3_LoopOutcome ==
    (mode = "tools" /\ Finished /\ trace # <<>>) =>
        /\ (Last(trace).kind = "text" /\ Last(trace).content # None
                /\ AllToolRounds(Len(trace) - 1)) =>
              (pc = "done" /\ reply = Last(trace).content /\ svcCalls = Len(trace))
        /\ (Len(trace) = max_tool_rounds /\ AllToolRounds(max_tool_rounds)) =>
              (pc = "done" /\ reply = StillProcessing)

\* C4 as stated: an action request whose arguments are not JSON, lack the
\* required argument or hold an invalid value gets a descriptive string as
\* its result and never makes an exception leave generate_response.
C4_MalformedArgumentsNeverRaise ==
    (executed # None /\ executed[1].arguments # "valid") =>
        (pc # "raised" /\ executed[1].result \in {"result", "error_description", "not_implemented"})

\* C5 as stated, for the two branches that call the OpenAI-compatible service:
\* an invocation that ends on a rate-limit fault made 3 rate-limited attempts
\* in a row and returns the apology; one that ends on another fault returns
\* the apology at once.
C5_RetryPolicy ==
    (mode \in {"tools", "plain"} /\ pc = "done" /\ trace # <<>>) =>
        /\ Last(trace).kind = "fault" => reply = Apology
        /\ Last(trace).kind = "rate_limit" =>
              /\ reply = Apology
              /\ Len(trace) >= max_retries
              /\ \A i \in (Len(trace) - max_retries + 1)..Len(trace) :
                    trace[i].kind = "rate_limit"

\* C21: an action request whose name is not in the dispatch gets the fixed
\* "not implemented" string as its result, that string is the tool-result entry
\* appended for the request, and no exception leaves generate_response on its
\* account.
C21_UnknownActionIsAnswered ==
    [][(pc = "tools" /\ executed' # None /\ executed'[1].name = "otra") =>
          /\ executed'[1].result = "not_implemented"
          /\ pc' # "raised"
          /\ messages' = Append(messages,
                             Message("tool", Some(Head(pending)), "not_implemented"))]_vars

\* C21 witness: an invocation whose last executed request named an unknown
\* function has returned
C21_UnknownActionThenDone ==
    /\ pc = "done" /\ executed # None /\ executed[1].name = "otra"
    /\ \E i \in 1..Len(messages) :
          messages[i].role = "tool" /\ messages[i].content = "not_implemented"

\* C27 as stated: every step that runs a requested action takes the first
\* request still pending and appends exactly one tool-result entry with that
\* request's id, and the reasoning service is called only when no request of
\* the round is pending.
C27_RoundProtocol ==
    [][/\ pc = "tools" =>
            /\ pending # <<>>
            /\ pending' = Tail(pending)
            /\ messages' = Append(messages,
                               Message("tool", Some(Head(pending)), executed'[1].result))
       /\ svcCalls' # svcCalls => pending = <<>>]_vars

\* C28 as stated: when an invocation returns after running actions, the
\* last answer of the reasoning service came after those actions, so their
\* tool-result entries were in a request to it.
C28_ResultsPresented ==
    (pc = "done" /\ executed # None) => Last(trace).kind # "tool_calls"

\* C28 amended: when an invocation returns after running actions, their
\* tool-result entries were in a later request to the reasoning service,
\* unless the actions were those of the last permitted round: then the round
\* budget is spent and the fixed "still processing" text is returned with no
\* further request.
C28_ResultsPresentedWithinBudget ==
    (pc = "done" /\ executed # None /\ Last(trace).kind = "tool_calls") =>
        /\ round = max_tool_rounds
        /\ svcCalls <= max_tool_rounds
        /\ reply = StillProcessing

\* C28 witness: an action ran in the first round and the second call, which
\* carried its result, returned the final text
C28_PresentedThenText ==
    /\ pc = "done" /\ executed # None
    /\ Len(trace) = 2 /\ trace[1].kind = "tool_calls" /\ trace[2].kind = "text"
    /\ \E i \in 1..Len(messages) : messages[i].role = "tool"

\* C19 as stated: every invocation of generate_response returns, and what it
\* returns is a non-empty text, whatever the reasoning service answered.
C19_ReplyNeverEmpty ==
    Finished => (pc = "done" /\ TruthyStr(reply))

----------------------------------------------------------------------------
\* Properties of calculate_lead_score

\* C8: for every combination of present fields, urgency, interest level,
\* visit intent and interaction count the score is an integer of 0..100: the
\* raw sum when that is at most 100, and 100 when the raw sum is larger.
C8_ScoreClamped ==
    scoreOut # None =>
        LET raw == RawScore(scoreIn.lead, scoreIn.extracted) IN
        /\ scoreOut[1] \in 0..100
        /\ raw <= 100 => scoreOut[1] = raw
        /\ raw > 100 => scoreOut[1] = 100

\* C8 witness: the raw sum of a full profile with every bonus is above 100
\* and the call returned 100
C8_Saturated ==
    /\ scoreOut = Some(100)
    /\ RawScore(scoreIn.lead, scoreIn.extracted) > 100
    /\ scoreIn.extracted.wants_visit /\ scoreIn.lead.total_interactions >= 5

----------------------------------------------------------------------------
\* Properties of the lifecycle status

\* update_lead_from_extraction has just run in this step
UpdateStep == QualifyStep /\ (again' \/ extracted' # extracted)

\* C11: update_lead_from_extraction moves only a lead in status nuevo: to
\* cualificado when the new score is at least LEAD_SCORE_HOT, else to
\* contactado when it is at least LEAD_SCORE_WARM, else nowhere; a lead in any
\* other status keeps it, in memory and in the stored record.
C11_StatusOnlyFromNuevo ==
    [][UpdateStep =>
          /\ lead'.status =
                IF lead.status # "nuevo" THEN lead.status
                ELSE IF lead'.score >= 75 THEN "cualificado"
                ELSE IF lead'.score >= 50 THEN "contactado"
                ELSE "nuevo"
          /\ dbLead'[1].status = lead'.status]_vars

\* C11 witness: a lead in negotiation reached a hot score and is still in
\* negotiation
C11_KeptStatus ==
    /\ calls > 0 /\ extracted # NoExtraction
    /\ lead.status = "negociacion" /\ lead.score >= LEAD_SCORE_HOT
    /\ dbLead[1].status = "negociacion"

----------------------------------------------------------------------------
\* Properties of the nurturing rules

\* the positions in NurturingOrder of the rules whose condition holds for the
\* arguments of the evaluation
MatchingRules ==
    {k \in 1..Len(NurturingOrder) :
        RuleHolds(NurturingOrder[k], nurtureIn.days_since_contact, nurtureIn.score,
                  nurtureIn.interactions)}

\* C12: an evaluation returns at most one action; it is the action of the
\* first rule, in the order hot-lead-urgency, warm-nudge, first-follow-up,
\* cold-reactivation, whose condition holds, and nothing when none holds.
C12_FirstMatchingRule ==
    nurtureOut.returned =>
        /\ Len(nurtureOut.action) <= 1
        /\ MatchingRules = {} <=> nurtureOut.action = None
        /\ MatchingRules # {} =>
              \E k \in MatchingRules :
                  /\ \A j \in MatchingRules : k <= j
                  /\ nurtureOut.action[1].type = NurturingOrder[k]

\* C12 witness: a lead scored below 30 with two interactions, contacted two
\* days ago, got the first follow-up
C12_FirstFollowUp ==
    /\ nurtureOut.returned /\ nurtureOut.action # None
    /\ nurtureOut.action[1].template = "first_followup"
    /\ nurtureIn.days_since_contact = 2 /\ nurtureIn.interactions = 2

----------------------------------------------------------------------------
\* Properties of the conversation

\* no add_message call is in flight
Quiescent == \A t \in Turns : turn[t].pc = "idle"

Range(seq) == {seq[i] : i \in 1..Len(seq)}

\* the message lists get_or_create_conversation may return in this state:
\* the cached object's, or the list built from what the store read returns,
\* which is nothing when the read fails and `mayFail` allows that
ReturnedMessages(mayFail) ==
    IF cache # None THEN {convs[cache[1]].messages}
    ELSE {NewConversation(row).messages :
            row \in (IF dbConvs = <<>> THEN {None}
                     ELSE IF mayFail THEN ReadResults ELSE ReadResults \ {None})}

C17_AppendSurvivesWriteFailure ==
    (Quiescent /\ ~overlapped /\ ~cleared /\ appended # <<>>) =>
        /\ cache # None
        /\ convs[cache[1]].messages = appended
        /\ ReturnedMessages(TRUE) = {appended}

\* C17 witness: the write of the second message failed; the store holds one
\* message, the cached conversation two
C17_WriteFailed ==
    /\ Quiescent /\ ~overlapped /\ ~cleared /\ writeFailed
    /\ Len(appended) = 2 /\ cache # None /\ convs[cache[1]].messages = appended
    /\ Len(dbConvs) = 1 /\ Len(dbConvs[1].messages) = 1

\* the points of the scoring table for what a call was given
TablePoints(in) ==
    LET p == in.lead.preferences
        e == in.extracted
        Points(condition, n) == IF condition THEN n ELSE 0
    IN Points(TruthyStr(p.operation), 10)
     + Points(TruthyStr(p.property_type), 10)
     + Points(TruthyStr(p.zone), 15)
     + Points(TruthyNum(p.min_budget) \/ TruthyNum(p.max_budget), 15)
     + Points(TruthyNum(p.bedrooms), 5)
     + Points(TruthyStr(p.urgency), 10)
     + Points(p.urgency \in {Some("inmediata"), Some("1-3 meses")}, 10)
     + Points(TruthyStr(p.purpose), 5)
     + Points(TruthyStr(in.lead.name), 5)
     + Points(e.nonempty /\ e.interest_level = "medio", 5)
     + Points(e.nonempty /\ e.interest_level = "alto", 10)
     + Points(e.nonempty /\ e.interest_level = "muy alto", 15)
     + Points(e.nonempty /\ e.wants_visit, 15)
     + Points(in.lead.total_interactions >= 3, 5)
     + Points(in.lead.total_interactions >= 5, 5)

\* C29: calculate_lead_score is min(100, S), S being the sum of the table
\* (10 operation, 10 property type, 15 zone, 15 a budget, 5 bedrooms, 10
\* urgency and 10 more when it is near, 5 purpose, 5 name, the interest bonus,
\* 15 visit intent, 5 from 3 interactions and 5 more from 5); the score the
\* lead held before plays no part; a lead of which only the zone is known,
\* with 1 interaction, low interest and no visit intent, scores 15, tier cold.
C29_ScoreIsTableSum ==
    scoreOut # None =>
        /\ scoreOut[1] = Min(100, TablePoints(scoreIn))
        /\ scoreOut[1] = calculate_lead_score([scoreIn.lead EXCEPT !.score = 0],
                                              scoreIn.extracted)
        /\ (/\ scoreIn.lead.preferences = [LeadPreferences EXCEPT !.zone = Some("Centro")]
            /\ scoreIn.lead.name = None /\ scoreIn.lead.total_interactions = 1
            /\ scoreIn.extracted.interest_level = "bajo" /\ ~scoreIn.extracted.wants_visit)
           => (scoreOut[1] = 15 /\ get_score_label(scoreOut[1]) = "curioso")

\* C29 witness: the lead of the example, holding a score of 90 from before,
\* was scored 15
C29_OnlyZoneKnown ==
    /\ scoreOut = Some(15)
    /\ scoreIn.lead.score = 90
    /\ scoreIn.lead.preferences = [LeadPreferences EXCEPT !.zone = Some("Centro")]
    /\ scoreIn.extracted.nonempty /\ scoreIn.extracted.interest_level = "bajo"

\* C30: when add_message calls are made one at a time, every store write that
\* succeeds leaves the stored message list of the conversation equal to the
\* list in memory, messages whose own write had failed included.
C30_WriteThrough ==
    [][(~overlapped /\ dbConvs' # dbConvs) =>
          \A t \in Turns :
             turn[t].pc = "write" =>
                LET conversation == convs'[turn[t].conversation[1]] IN
                /\ conversation.id # None
                /\ \E r \in 1..Len(dbConvs') :
                      /\ dbConvs'[r].id = conversation.id[1]
                      /\ dbConvs'[r].messages = message_rows(conversation.messages)]_vars

\* C30 witness: the write of an earlier message failed, a later write
\* succeeded, and the store holds all three messages
C30_Repaired ==
    /\ Quiescent /\ ~overlapped /\ ~cleared /\ writeFailed
    /\ Len(appended) = 3 /\ Len(dbConvs) = 1
    /\ dbConvs[1].messages = message_rows(appended)
    /\ convs[cache[1]].id = Some(dbConvs[1].id)

----------------------------------------------------------------------------
\* Properties of the context window

\* C16: get_context_messages returns at most MAX_CONTEXT_MESSAGES entries,
\* exactly the most recent min(20, n) messages of the n-message conversation in
\* chronological order, each as {role, content}, and leaves the conversation
\* as it was.
C16_WindowIsMostRecent ==
    [][windowOut' # None =>
        LET msgs == windowIn.messages
            n == Len(msgs)
            w == windowOut'[1]
        IN /\ Len(w) = Min(MAX_CONTEXT_MESSAGES, n)
           /\ Len(w) <= MAX_CONTEXT_MESSAGES
           /\ \A i \in 1..Len(w) :
                 /\ DOMAIN w[i] = {"role", "content"}
                 /\ w[i].role = msgs[n - Len(w) + i].role
                 /\ w[i].content = msgs[n - Len(w) + i].content
           /\ windowIn' = windowIn]_vars

\* C16 witness: a conversation longer than the window was windowed; the
\* window starts at its third message
C16_Windowed ==
    /\ windowOut # None
    /\ Len(windowIn.messages) = MAX_CONTEXT_MESSAGES + 2
    /\ Len(windowOut[1]) = MAX_CONTEXT_MESSAGES
    /\ windowOut[1][1].content = "3"

----------------------------------------------------------------------------
\* Properties of the inbound webhook handler

\* C15: with turns handled one at a time, the message list built for the
\* reasoning service ends with the current inbound message as a user entry and
\* holds that message nowhere else.
C15_InboundExactlyOnce ==
    prompt # None =>
        LET p == prompt[1] IN
        /\ p[Len(p)] = [role |-> "user", content |-> inbound[1]]
        /\ \A i \in 1..(Len(p) - 1) : p[i].content # inbound[1]
        /\ \E i \in 1..Len(appended) :
              /\ appended[i].role = "user"
              /\ appended[i].content = inbound[1]

\* C15 witness: the second turn of a contact with a long history; the window
\* was full, its last entry (the inbound message) was taken off, and the list
\* is the system prompt, 19 earlier messages and the inbound message
C15_FullWindowStripped ==
    /\ prompt # None /\ turns = 2
    /\ Len(convs[cache[1]].messages) > MAX_CONTEXT_MESSAGES
    /\ Len(prompt[1]) = MAX_CONTEXT_MESSAGES + 1
    /\ prompt[1][Len(prompt[1]) - 1].role = "assistant"

\* C18 as stated: no turn ends with an exception because a call to the lead
\* store failed.
C18_StoreFailureNeverCrashesTurn ==
    ~(hpc = "raised" /\ ~dbUp /\ lead.id = None
      /\ fault = Some("Conversation(lead_id=None)"))

----------------------------------------------------------------------------
\* Properties of the extraction

\* C20 as stated: for a response that yields no parsed extraction,
\* extract_lead_info raises nothing and qualify_lead leaves the lead, its
\* stored row and the tasks as they were.
C20_UnparseableLeavesLeadUnchanged ==
    (extractOut # None /\ extractOut[1].kind # "parsed") =>
        /\ extractOut[1].kind = "unparsed"
        /\ lead = KnownLead
        /\ dbLead[1].score = 0 /\ dbLead[1].status = "nuevo"
        /\ hotTasks = 0 /\ handoffTasks = 0

-----------------------------------------------------------------------------
\* Properties of the nurturing pass

\* the row of the store with this id
StoredLead(id) == CHOOSE row \in Range(storeLeads) : row.id = id

\* the lead has a number WhatsApp can reach
HasWhatsapp(l) == l.phone # <<>> /\ l.phone[1] # "ig:"

\* entry e records, for lead l, the evaluation of the rules and an attempt on
\* every channel the selected action names for which l has a destination
EvaluatedAndActedOn(e, l) ==
    LET days == IF l.last_contact = None THEN 999 ELSE l.last_contact[1].days
        action == evaluate_nurturing_rules(days, l.score, l.total_interactions)
    IN  /\ e.action = action
        /\ action # None =>
             /\ (action[1].channel \in {"whatsapp", "both"} /\ HasWhatsapp(l))
                   => e.whatsapp # NotAttempted
             /\ (action[1].channel \in {"email", "both"} /\ l.email # "")
                   => e.email # NotAttempted

C22_EveryLeadHandled ==
    /\ jobPc \in {"idle", "loop", "returned", "alone"}
    /\ jobPc \in {"loop", "returned"} =>
         /\ cursor <= Len(leads) + 1
         /\ Len(handled) = cursor - 1
         /\ \A i \in 1..Len(handled) :
              /\ handled[i].id = leads[i].id
              /\ ~handled[i].raised => EvaluatedAndActedOn(handled[i], leads[i])
    /\ jobPc = "returned" =>
         /\ Len(handled) = Len(leads)
         /\ summary = Some(actions_taken)
    /\ \A i \in 1..Len(handled) :
         LET e == handled[i]
             l == StoredLead(e.id)
         IN  (e.action # None /\ e.action[1].channel = "both"
                 /\ HasWhatsapp(l) /\ l.email # "")
               => e.whatsapp # NotAttempted /\ e.email # NotAttempted

\* C22: whatever happened to the leads before it (an unusable timestamp, a
\* failed send), every lead of the list is evaluated and, when a rule selects
\* an action, a send is attempted on each channel of the action the lead can
\* be reached on; with an action on both channels both sends are attempted
\* whatever the outcome of the first; and a pass that entered
\* process_nurturing returns its summary.
C22_FailuresAreIsolated ==
    /\ []C22_EveryLeadHandled
    /\ (jobPc = "loop") ~> (jobPc = "returned" /\ summary # None)

\* the first lead raised on its timestamp, and the second was then messaged
C22_SecondLeadReachedAfterFailure ==
    /\ jobPc = "returned"
    /\ Len(handled) = 2
    /\ handled[1].raised
    /\ handled[2].whatsapp = "sent"

\* sends of the pass that were attempted and failed, and sends that went out
FailedSends ==
    Cardinality({i \in 1..Len(handled) : handled[i].whatsapp = "failed"})
      + Cardinality({i \in 1..Len(handled) : handled[i].email = "failed"})

WhatsappDelivered == Cardinality({i \in 1..Len(handled) : handled[i].whatsapp = "sent"})

EmailsDelivered == Cardinality({i \in 1..Len(handled) : handled[i].email = "sent"})

\* C23 as stated: every send that failed during the pass is counted in the
\* errors of the returned summary.
C23_DeliveryFailuresCounted ==
    jobPc = "returned" => summary[1].errors >= FailedSends

\* the statuses of a lead that is closed or inactive
ClosedStatuses == {"cerrado_ganado", "cerrado_perdido", "inactivo"}

\* C24 as stated: no closed or inactive lead is in the list the job hands to
\* process_nurturing, and none gets a re-engagement action.
C24_OnlyActiveLeadsNurtured ==
    jobPc \in {"loop", "returned"} =>
       /\ \A i \in 1..Len(leads) : leads[i].status \notin ClosedStatuses
       /\ \A i \in 1..Len(handled) :
            leads[i].status \in ClosedStatuses => handled[i].action = None

\* C25: no step of process_nurturing, and no call of
\* _execute_nurturing_action, changes a row of the store or a record of the
\* list it was handed; what the pass leaves behind is its sends and its summary.
C25_LeadsUntouched ==
    [][(jobPc = "loop" \/ jobPc' = "alone") =>
          /\ storeLeads' = storeLeads
          /\ leads' = leads]_vars

\* the pass returned after a WhatsApp message and an email went out, and the
\* records and the rows are those it started from
C25_SentAndUnchanged ==
    /\ jobPc = "returned"
    /\ WhatsappDelivered >= 1
    /\ EmailsDelivered >= 1
    /\ leads = get_active_leads(storeLeads, TRUE)

\* C26 as stated: the two send counts of the summary are the numbers of
\* messages that went out.
C26_CountsAreDeliveries ==
    jobPc = "returned" =>
       /\ summary[1].messages_sent = WhatsappDelivered
       /\ summary[1].emails_sent = EmailsDelivered

-----------------------------------------------------------------------------
\* Properties of concurrent turns

\* C33 as stated: the store never holds more than one conversation row for
\* the (lead, channel) pair, whatever the order of the add_message calls.
C33_OneConversationRecord == Len(dbConvs) <= 1

\* C31 as stated: a preference value the stored record holds is still there
\* after any write of either turn.
C31_StoredProfileFillOnly ==
    [][\A i \in 1..Len(leadRows) : \A f \in DOMAIN LeadPreferences :
          leadRows[i].preferences[f] # None
             => leadRows'[i].preferences[f] = leadRows[i].preferences[f]]_vars

\* C32 as stated: create_lead is executed at most once for the contact key,
\* so the table never holds two rows for it.
C32_OneLeadPerContact == creates <= 1 /\ Len(leadRows) <= 1

\* an entry of a pass in which something went out to the lead
WasSent(e) == e.whatsapp = "sent" \/ e.email = "sent"

\* C34 as stated: a lead that was sent an action in the run before gets no
\* action in this run, nothing but time having changed for it.
C34_NoRepeatedNurturing ==
    \A i \in 1..Len(handled) : \A j \in 1..Len(lastPass) :
        (handled[i].id = lastPass[j].id /\ WasSent(lastPass[j]))
           => handled[i].action = None

-----------------------------------------------------------------------------
\* Properties across the qualification functions

\* the preference fields calculate_lead_score gives points for
WeightedFields ==
    {"operation", "property_type", "zone", "min_budget", "max_budget",
     "bedrooms", "urgency", "purpose"}

\* the entry of the missing list that asks for field f
MissingEntry(f) == IF f \in {"min_budget", "max_budget"} THEN "budget" ELSE f

\* the points calculate_lead_score gives a lead that has nothing but this
\* value in field f
PointsFor(f, value) ==
    calculate_lead_score([DefaultLead EXCEPT !.preferences[f] = value], EmptyExtraction)

\* C35 as stated: a weighted field the merge will not fill again (its value is
\* not None) earns its points and is not asked for as missing.
C35_KnownMeansTheSame ==
    \A f \in WeightedFields :
        lead.preferences[f] # None
           => /\ PointsFor(f, lead.preferences[f]) > 0
              /\ MissingEntry(f) \notin missing_fields(lead)

-----------------------------------------------------------------------------
\* Properties of the visits calendar

\* the day a time falls on
DayOf(time) == time \div At(1, 0, 0)

\* C36 as stated: a visit is booked only at a start time that
\* get_available_slots offers for its day, given the calendar at that moment.
C36_BookedOnlyInOfferedSlot ==
    [][Len(calendar') > Len(calendar) =>
          LET visit == calendar'[Len(calendar')] IN
          visit.start \in get_available_slots(DayOf(visit.start),
                              events_for_date(DayOf(visit.start), calendar, TRUE),
                              DEFAULT_VISIT_DURATION)]_vars

\* C37 as stated: once the hourly runs have passed the start of a visit that
\* has a phone number, its WhatsApp reminder has been sent.
C37_WhatsappReminderSent ==
    \A i \in 1..Len(calendar) :
        (/\ calendar[i].visit /\ calendar[i].phone # ""
         /\ runNo > 0 /\ TriggerTime(runNo - 1) >= calendar[i].start)
           => reminders[i].whatsapp >= 1

\* C38 as stated: no visit has been sent the email reminder twice or the
\* WhatsApp reminder twice.
C38_RemindedAtMostOnce ==
    \A i \in 1..Len(reminders) :
        reminders[i].email <= 1 /\ reminders[i].whatsapp <= 1

====
